---- MODULE Spec2Model ----
(***************************************************************************)
(* A model of the Aptner visitor-vehicle reservation client                *)
(* (src/aptner_api.py) and of the schedule expansion of its desktop front  *)
(* end (src/aptner_gui.py).                                                *)
(*                                                                         *)
(* Encodings.  A calendar date is its proleptic Gregorian ordinal, as      *)
(* datetime.date.toordinal() gives it.  A text (date text, plate) is a     *)
(* sequence of characters; a plate is a sequence of code points, so that   *)
(* Python's string order is the lexicographic order of the sequences.  A   *)
(* JSON value that may be missing is a record [t, v] with t one of         *)
(* "absent", "null", "int", "text".                                        *)
(***************************************************************************)
EXTENDS Integers, Sequences, FiniteSets, Bags, TLC

----------------------------------------------------------------------------
(* datetime.date arithmetic *)

IsLeap(y) == (y % 4 = 0 /\ y % 100 # 0) \/ y % 400 = 0

DaysInMonth(y, m) ==
    IF m = 2 THEN (IF IsLeap(y) THEN 29 ELSE 28)
    ELSE IF m \in {4, 6, 9, 11} THEN 30 ELSE 31

DaysBeforeYear(y) ==
    (y - 1) * 365 + ((y - 1) \div 4) - ((y - 1) \div 100) + ((y - 1) \div 400)

RECURSIVE DaysBeforeMonth(_, _)
DaysBeforeMonth(y, m) ==
    IF m <= 1 THEN 0 ELSE DaysBeforeMonth(y, m - 1) + DaysInMonth(y, m - 1)

\* date(y, m, d).toordinal()
Ordinal(y, m, d) == DaysBeforeYear(y) + DaysBeforeMonth(y, m) + d

\* date.weekday(): Monday is 0
Weekday(n) == (n + 6) % 7

----------------------------------------------------------------------------
(* datetime.strptime(text, "%Y.%m.%d").date() *)

\* a text is the sequence of the code points of its characters

\* the regular expression's \d takes every Unicode decimal digit (category
\* Nd): 66 runs of ten code points, each starting at a zero; 48 is "0"
DecimalZeros ==
    {48, 1632, 1776, 1984, 2406, 2534, 2662, 2790, 2918, 3046, 3174, 3302,
     3430, 3558, 3664, 3792, 3872, 4160, 4240, 6112, 6160, 6470, 6608, 6784,
     6800, 6992, 7088, 7232, 7248, 42528, 43216, 43264, 43472, 43504, 43600,
     44016, 65296, 66720, 68912, 69734, 69872, 69942, 70096, 70384, 70736,
     70864, 71248, 71360, 71472, 71904, 72016, 72784, 73040, 73120, 92768,
     92864, 93008, 120782, 120792, 120802, 120812, 120822, 123200, 123632,
     125264, 130032}

IsDecimal(c) == \E z \in DecimalZeros : c \in z..(z + 9)

\* int() gives a decimal digit of any script its value
DigitVal(c) == c - (CHOOSE z \in DecimalZeros : c \in z..(z + 9))

\* the number written by at most four digits
Num(s) ==
    (IF Len(s) >= 1 THEN DigitVal(s[Len(s)]) ELSE 0)
    + (IF Len(s) >= 2 THEN 10 * DigitVal(s[Len(s) - 1]) ELSE 0)
    + (IF Len(s) >= 3 THEN 100 * DigitVal(s[Len(s) - 2]) ELSE 0)
    + (IF Len(s) >= 4 THEN 1000 * DigitVal(s[Len(s) - 3]) ELSE 0)

\* where the "." characters of s are
Dots(s) == {i \in 1..Len(s) : s[i] = 46}
DotA(s) == CHOOSE i \in Dots(s) : \A j \in Dots(s) : i <= j
DotB(s) == CHOOSE i \in Dots(s) : \A j \in Dots(s) : i >= j

NoDate == [ok |-> FALSE, date |-> 0]

\* the day field of %d, 3[0-1]|[1-2]\d|0[1-9]|[1-9]| [1-9]: only the second
\* place of a day from 10 to 29 takes a digit of any script; 32 is " "
IsDayField(D) ==
    \/ Len(D) = 1 /\ D[1] \in 49..57
    \/ /\ Len(D) = 2
       /\ \/ D[1] = 51 /\ D[2] \in 48..49
          \/ D[1] \in 49..50 /\ IsDecimal(D[2])
          \/ D[1] \in {48, 32} /\ D[2] \in 49..57
DayNum(D) == IF D[1] = 32 THEN DigitVal(D[2]) ELSE Num(D)

\* the text Y.M.D read as the regular expression of "%Y.%m.%d" reads it:
\* \d\d\d\d for the year, 1[0-2]|0[1-9]|[1-9] for the month (the digits
\* from "0" to "9" only), and a day field, nothing else
DateOfFields(Y, M, D) ==
    IF /\ Len(Y) = 4 /\ \A i \in 1..4 : IsDecimal(Y[i])
       /\ Len(M) \in {1, 2} /\ \A i \in 1..Len(M) : M[i] \in 48..57
       /\ IsDayField(D)
       /\ Num(Y) >= 1
       /\ Num(M) \in 1..12
       /\ DayNum(D) >= 1 /\ DayNum(D) <= DaysInMonth(Num(Y), Num(M))
    THEN [ok |-> TRUE, date |-> Ordinal(Num(Y), Num(M), DayNum(D))]
    ELSE NoDate

\* txt is [present, s]: item.get("visitDate"); an absent key gives None, and
\* strptime(None, ...) raises like an unparseable text does
Strptime(txt) ==
    IF ~txt.present THEN NoDate
    ELSE IF Cardinality(Dots(txt.s)) # 2 THEN NoDate
    ELSE CHOOSE r \in {DateOfFields(Y, M, D) :
                          Y \in {SubSeq(txt.s, 1, DotA(txt.s) - 1)},
                          M \in {SubSeq(txt.s, DotA(txt.s) + 1, DotB(txt.s) - 1)},
                          D \in {SubSeq(txt.s, DotB(txt.s) + 1, Len(txt.s))}} : TRUE

\* date.strftime("%Y.%m.%d"): month and day are zero-padded, the year is
\* written without padding
DigitChar(k) == 48 + k

Pad2(k) == <<DigitChar((k \div 10) % 10), DigitChar(k % 10)>>

\* %Y of the C library: the decimal digits of the year, no leading zeros
RECURSIVE YearText(_)
YearText(k) == IF k < 10 THEN <<DigitChar(k)>> ELSE YearText(k \div 10) \o <<DigitChar(k % 10)>>

YearOf(n) == CHOOSE y \in (n \div 366)..((n \div 365) + 1) : DaysBeforeYear(y) < n /\ n <= DaysBeforeYear(y + 1)

MonthOf(n) ==
    LET y == YearOf(n)
        r == n - DaysBeforeYear(y)
    IN  CHOOSE m \in 1..12 :
            DaysBeforeMonth(y, m) < r /\ r <= DaysBeforeMonth(y, m) + DaysInMonth(y, m)

DayOf(n) == n - DaysBeforeYear(YearOf(n)) - DaysBeforeMonth(YearOf(n), MonthOf(n))

Strftime(n) == YearText(YearOf(n)) \o <<46>> \o Pad2(MonthOf(n)) \o <<46>> \o Pad2(DayOf(n))

----------------------------------------------------------------------------
(* Values *)

\* Python's order of two strings, as sequences of code points
StrLess(a, b) ==
    \/ Len(a) < Len(b) /\ a = SubSeq(b, 1, Len(a))
    \/ \E i \in 1..Len(a) :
          /\ i <= Len(b)
          /\ a[i] < b[i]
          /\ \A j \in 1..(i - 1) : a[j] = b[j]

JAbsent == [t |-> "absent", v |-> 0]
JNull == [t |-> "null", v |-> 0]
JInt(n) == [t |-> "int", v |-> n]
\* a JSON string that is not a number: v is 0 for the empty string "" and
\* 1 for any other
JText == [t |-> "text", v |-> 1]
JEmpty == [t |-> "text", v |-> 0]

\* bool(x) of a JSON value as Python sees it: None, 0 and "" are false
JTruthy(x) == x.t \in {"int", "text"} /\ x.v # 0

\* a token: None, or a string
NoToken == [t |-> "null", s |-> ""]
Tok(s) == [t |-> "text", s |-> s]
TokTruthy(x) == x.t = "text" /\ x.s # ""

----------------------------------------------------------------------------
(* get_reservations: the work on one page, and the final sort *)

\* int(data.get("totalPages", 1) or 1); int() of a non-numeric string raises
TotalPagesOf(data) ==
    LET x == data.totalPages IN
    IF x.t = "absent" THEN [ok |-> TRUE, n |-> 1]
    ELSE IF ~JTruthy(x) THEN [ok |-> TRUE, n |-> 1]
    ELSE IF x.t = "text" THEN [ok |-> FALSE, n |-> 0]
    ELSE [ok |-> TRUE, n |-> x.v]

\* item.get("days", 1)
ItemDays(item) == IF item.days.t = "absent" THEN JInt(1) ELSE item.days

\* the dictionary appended for an item whose date parsed as d
ReservationOf(item, d) ==
    [idx |-> item.visitReserveIdx,
     carNo |-> item.carNo,
     visitDate |-> d,
     visitDateStr |-> item.visitDate.s,
     purpose |-> item.purpose,
     phone |-> item.phone,
     days |-> ItemDays(item)]

\* "if visit_date >= today"
KeepsDate(d, tdy) == d >= tdy

RECURSIVE ProcessItemsStops(_, _, _)
ProcessItemsStops(items, tdy, acc) ==
    IF items = <<>> THEN acc
    ELSE LET item == Head(items)
             p == Strptime(item.visitDate)
         IN  IF ~p.ok THEN acc
             ELSE IF KeepsDate(p.date, tdy)
                  THEN ProcessItemsStops(Tail(items), tdy,
                                         Append(acc, ReservationOf(item, p.date)))
                  ELSE ProcessItemsStops(Tail(items), tdy, acc)

\* the for loop over data["reserveList"]
RECURSIVE ProcessItems(_, _, _)
ProcessItems(items, tdy, acc) ==
    IF items = <<>> THEN acc
    ELSE LET item == Head(items)
             p == Strptime(item.visitDate)
         IN  IF ~p.ok THEN ProcessItems(Tail(items), tdy, acc)
             ELSE IF KeepsDate(p.date, tdy)
                  THEN ProcessItems(Tail(items), tdy, Append(acc, ReservationOf(item, p.date)))
                  ELSE ProcessItems(Tail(items), tdy, acc)

KeyGreaterByDate(a, b) == a.visitDate > b.visitDate

\* the sort key (x["visitDate"], x["carNo"]): a's key is greater than b's
KeyGreater(a, b) ==
    \/ a.visitDate > b.visitDate
    \/ a.visitDate = b.visitDate /\ StrLess(b.carNo, a.carNo)

\* x put into the sorted list s after every entry whose key is not greater
InsertByKey(x, s) ==
    LET k == Cardinality({i \in 1..Len(s) : ~KeyGreater(s[i], x)})
    IN  SubSeq(s, 1, k) \o <<x>> \o SubSeq(s, k + 1, Len(s))

\* list.sort(key=...): a stable sort
RECURSIVE SortReservations(_)
SortReservations(rs) ==
    IF rs = <<>> THEN <<>>
    ELSE CHOOSE r \in {InsertByKey(rs[Len(rs)], s) :
                          s \in {SortReservations(SubSeq(rs, 1, Len(rs) - 1))}} : TRUE

----------------------------------------------------------------------------
(* get_reserved_dates: the index of occupied (plate, date) pairs *)

\* r.get("days", 1) or 1
DaysOf(r) == IF JTruthy(r.days) THEN r.days ELSE JInt(1)

\* "if car_no and r["carNo"] != car_no: continue"; car_no is [present, s]
SkipsCar(car_no, r) == car_no.present /\ car_no.s # <<>> /\ r.carNo # car_no.s

PairsOfInclusive(r) ==
    LET days == DaysOf(r) IN
    IF days.t = "text" THEN [exc |-> "TypeError", set |-> {}]
    ELSE IF r.visitDate + days.v > Ordinal(9999, 12, 31)
    THEN [exc |-> "OverflowError", set |-> {}]
    ELSE [exc |-> "", set |-> {<<r.carNo, r.visitDate + d>> : d \in 0..days.v}]

\* lines 153-157 for one reservation: the pairs added, or the exception
\* raised.  range(days) raises TypeError for a day-span that is a string and
\* is empty for days <= 0; base_date + timedelta(days=d) raises
\* OverflowError past date.max, 9999-12-31, and what was added is lost
PairsOf(r) ==
    LET days == DaysOf(r) IN
    IF days.t = "text" THEN [exc |-> "TypeError", set |-> {}]
    ELSE IF r.visitDate + days.v - 1 > Ordinal(9999, 12, 31)
    THEN [exc |-> "OverflowError", set |-> {}]
    ELSE [exc |-> "", set |-> {<<r.carNo, r.visitDate + d>> : d \in 0..(days.v - 1)}]

\* the exception that ends the loop of lines 148-157, "" for none: that of
\* the first reservation of the vehicle whose pairs cannot be added
BuildRaises(reservations, car_no) ==
    LET bad == {i \in 1..Len(reservations) :
                   /\ ~SkipsCar(car_no, reservations[i])
                   /\ PairsOf(reservations[i]).exc # ""}
    IN  IF bad = {} THEN ""
        ELSE PairsOf(reservations[CHOOSE i \in bad : \A j \in bad : i <= j]).exc

BuildReserved(reservations, car_no) ==
    UNION {IF SkipsCar(car_no, reservations[i]) THEN {}
           ELSE PairsOf(reservations[i]).set : i \in 1..Len(reservations)}

----------------------------------------------------------------------------
(* reserve_car *)

MAX_DAYS_PER_RESERVATION == 30

ClampDaysNoCap(days) == IF days < 1 THEN 1 ELSE days

\* reserve_car lines 171-174
ClampDays(days) ==
    IF days < 1 THEN 1
    ELSE IF days > MAX_DAYS_PER_RESERVATION THEN MAX_DAYS_PER_RESERVATION
    ELSE days

----------------------------------------------------------------------------
(* _get_schedule_dates *)

\* the while loop from current through end_date
RECURSIVE WalkDates(_, _, _)
WalkDates(current, end_date, selected_days) ==
    IF current > end_date THEN <<>>
    ELSE (IF Weekday(current) \in selected_days THEN <<current>> ELSE <<>>)
         \o WalkDates(current + 1, end_date, selected_days)

EndDateExclusive(tdy, weeks) == tdy + 7 * weeks - 1

\* today + timedelta(weeks=weeks)
EndDate(tdy, weeks) == tdy + 7 * weeks

GetScheduleDates(selected_days, weeks, tdy) ==
    IF selected_days = {} THEN <<>>
    ELSE WalkDates(tdy, EndDate(tdy, weeks), selected_days)

RECURSIVE NewDatesAnyCar(_, _, _)
NewDatesAnyCar(dates, car_no, reserved_dates) ==
    IF dates = <<>> THEN <<>>
    ELSE (IF \E p \in reserved_dates : p[2] = Head(dates) THEN <<>> ELSE <<Head(dates)>>)
         \o NewDatesAnyCar(Tail(dates), car_no, reserved_dates)

\* _register_reservations line 397:
\* [d for d in dates if (car_no, d) not in self.reserved_dates]
RECURSIVE NewDates(_, _, _)
NewDates(dates, car_no, reserved_dates) ==
    IF dates = <<>> THEN <<>>
    ELSE (IF <<car_no, Head(dates)>> \in reserved_dates THEN <<>> ELSE <<Head(dates)>>)
         \o NewDates(Tail(dates), car_no, reserved_dates)

----------------------------------------------------------------------------
(* The client, its callers and the server's answers *)

VARIABLES
    env,        \* what the server may answer and who calls, fixed per run
    today,      \* date.today()
    token,      \* AptnerClient._token, shared by every caller
    writer,     \* history: the caller whose authenticate stored the token
    pc,         \* per caller: where it stands
    op,         \* per caller: the client method it called, with its arguments
    rq,         \* per caller: the frame of _request
    log,        \* per caller, history: the HTTP exchanges of the current
                \* _request (or direct authenticate) call, in order
    fr,         \* per caller: the frame of get_reservations
    out,        \* per caller: how its call ended
    calls,      \* client calls started so far, by any caller
    day_checks, \* the checked weekday boxes
    weeks_spin, \* the weeks spinner
    dates,      \* what _get_schedule_dates last returned
    plan,       \* the submission plan last computed, with what it was computed from
    app,        \* AptnerApp: client, reservations, reserved_dates
    job,        \* per worker: the function it runs, with its locals
    signals,    \* the signals emitted and not yet handled by the GUI thread
    hist,       \* history: the pairs a worker has booked and none has deleted since
    clicks,     \* the button clicks handled so far
    server      \* the reservations the server holds, where it keeps any

vars == <<env, today, token, writer, pc, op, rq, log, fr, out, calls,
          day_checks, weeks_spin, dates, plan, app, job, signals, hist, clicks,
          server>>

clientVars == <<token, writer, pc, op, rq, log, fr, out, calls>>
appVars == <<plan, app, job, signals, hist, clicks, server>>
guiVars == <<day_checks, weeks_spin, dates, appVars>>

\* the most button clicks handled in one run
MaxClicks == 1

\* the callers of the one client: the application's background workers.  A
\* new WorkerThread is started by __init__ and by every click, and a handler
\* starts its refresh worker when the worker it handles has ended, so a run
\* never has more in flight than one and the number of its clicks
Threads ==
    LET names == <<"w1", "w2", "w3", "w4", "w5", "w6">>
    IN  {names[i] : i \in 1..(MaxClicks + 1)}

\* the most items the server holds for one fetch
MaxItems == 2
\* the most client calls made in one run, by all callers together
MaxCalls == 2
\* the longest list of candidate dates a plan is computed from
MaxLen == 3

NoArg == [car_no |-> [present |-> FALSE, s |-> <<>>], visit_date |-> 0,
          days |-> 0, idx |-> 0]
NoOp == [name |-> "none", arg |-> NoArg]

NoJson == [present |-> FALSE, visitDate |-> <<>>, purpose |-> "", carNo |-> <<>>,
           days |-> 0, phone |-> ""]
\* {}: what _request returns for a body that is no JSON
EmptyData == [totalPages |-> JAbsent, reserveList |-> <<>>]
\* (hdr is the token the Authorization header carries; for the properties,
\* read is self._token as it was when the header was last written, and by
\* the caller that had stored it)
NoRq == [method |-> "", path |-> [p |-> "", n |-> 0], json_data |-> NoJson,
         hdr |-> NoToken, read |-> NoToken, by |-> "none", data |-> EmptyData]
NoFr == [reservations |-> <<>>, current_page |-> 0, total_pages |-> 0,
         today |-> 0, pages |-> <<>>, seen |-> <<>>, first |-> JAbsent,
         differed |-> FALSE]
NoOut == [kind |-> "none", exc |-> "", data |-> EmptyData, list |-> <<>>, set |-> {}]

\* AptnerApp.__init__ lines 98-102, before any worker has run
\* (shown and newest, kept for the properties only: the start number of the
\* refresh whose results are held, and the highest start number delivered)
NoApp == [client |-> FALSE, reservations |-> <<>>, reserved_dates |-> {},
          shown |-> 0, newest |-> 0]
NoPlan == [done |-> FALSE, dates |-> <<>>, car_no |-> <<>>, reserved_dates |-> {},
           new_dates |-> <<>>]
\* what set a refresh off: the pairs its register run booked, the pairs of
\* the row its delete removed, and how many changes the server has taken if
\* nothing else changed it meanwhile; a job also keeps, as was, the list and
\* the index the application held when its refresh worker was started (all
\* kept for the properties only)
NoCause == [created |-> {}, gone |-> {}, due |-> 0]
NoJob == [func |-> "none", at |-> "", new_dates |-> <<>>, car_no |-> <<>>, k |-> 0,
          success |-> 0, failed |-> 0, tried |-> <<>>, reservations |-> <<>>,
          row |-> <<>>, mark |-> 0, cause |-> NoCause, no |-> 0,
          was |-> [reservations |-> <<>>, reserved_dates |-> {}]]
\* a server that keeps nothing
NoServer == [list |-> <<>>, last |-> 0, writes |-> 0]

\* what a request is: its method, path and body
ReqOf(f) == [method |-> f.method, path |-> f.path, json_data |-> f.json_data]

Returned(data, list, set) ==
    [kind |-> "return", exc |-> "", data |-> data, list |-> list, set |-> set]
Raised(e) == [kind |-> "raise", exc |-> e, data |-> EmptyData, list |-> <<>>, set |-> {}]

Idle(t) == pc[t] \in {"idle", "done"}
InAuthenticate(t) == pc[t] \in {"auth_top", "auth_pre", "auth_re"}
IsFetch(t) == op[t].name \in {"get_reservations", "get_reserved_dates"}

----------------------------------------------------------------------------
(* authenticate *)

AuthFailsOnStatus(r) == r.status >= 400

\* lines 52-59: the exception one answer of the identity endpoint makes
\* authenticate raise, "" for none.  The body of the answer is a JSON
\* object ("object"), JSON of another kind such as a list or null
\* ("array"), on which data.get raises at line 56, or no JSON at all
\* ("text"), on which resp.json() raises at line 55
AuthRaises(r) ==
    IF r.status >= 400 THEN "AptnerAuthError"
    ELSE IF r.body = "text" THEN "JSONDecodeError"
    ELSE IF r.body = "array" THEN "AttributeError"
    ELSE IF ~TokTruthy(r.accessToken) THEN "AptnerAuthError"
    ELSE ""

\* lines 52-62: the answer does not get authenticate to line 61
AuthFails(r) == AuthRaises(r) # ""

\* line 61 is reached only past both raises
TokenAfterAuth(old, r) == IF AuthFails(r) THEN old ELSE r.accessToken

AfterAuthLoops(at) ==
    CASE at = "auth_top" -> "done"
      [] at = "auth_pre" -> "send1"
      [] at = "auth_re" -> "send1"

\* the caller goes on after a successful authenticate: line 62 for a direct
\* call, line 69 after line 67, line 86 after line 85
AfterAuth(at) ==
    CASE at = "auth_top" -> "done"
      [] at = "auth_pre" -> "send1"
      [] at = "auth_re" -> "send2"

\* a caller that is not inside a call starts one
StartCall(t, o, f) ==
    /\ t \in env.threads /\ Idle(t) /\ calls < env.calls
    /\ op' = [op EXCEPT ![t] = o]
    /\ rq' = [rq EXCEPT ![t] = f]
    /\ log' = [log EXCEPT ![t] = <<>>]
    /\ out' = [out EXCEPT ![t] = NoOut]
    /\ calls' = calls + 1

CallAuthenticate(t) ==
    /\ StartCall(t, [name |-> "authenticate", arg |-> NoArg], NoRq)
    /\ pc' = [pc EXCEPT ![t] = "auth_top"]
    /\ fr' = [fr EXCEPT ![t] = NoFr]
    /\ UNCHANGED <<env, today, token, writer, guiVars>>

Authenticate(t) ==
    /\ InAuthenticate(t)
    /\ \E r \in env.auths :
          LET fails == AuthFails(r)
              e == IF fails THEN writer ELSE t
          IN  /\ token' = TokenAfterAuth(token, r)
              /\ writer' = e
              /\ log' = [log EXCEPT ![t] =
                            Append(@, [k |-> "auth", status |-> r.status,
                                       body |-> r.body,
                                       tok |-> r.accessToken, ok |-> ~fails,
                                       req |-> ReqOf(NoRq),
                                       stored |-> TokenAfterAuth(token, r),
                                       writer |-> e])]
              /\ pc' = [pc EXCEPT ![t] = IF fails THEN "done" ELSE AfterAuth(pc[t])]
              /\ out' = [out EXCEPT ![t] =
                            IF fails THEN Raised(AuthRaises(r))
                            ELSE IF pc[t] = "auth_top"
                                 THEN Returned(EmptyData, <<>>, {})
                                 ELSE @]
    /\ UNCHANGED <<env, today, op, rq, fr, calls, guiVars>>

----------------------------------------------------------------------------
(* _request *)

\* line 84: the answer that sets off the re-authentication
IsUnauthorized(status) == status = 401

RequestFailsAbove(status) == status > 400

\* line 94: the answer that makes _request raise
RequestFails(status) == status >= 400

\* line 86: the retry's header is written again from the stored token
RetryBearer(hdr, stored) == stored

\* lines 97-100: resp.json(), or {} when the body is no JSON
DataOf(body) == IF body.json THEN body.data ELSE EmptyData

\* the answers the server may give to the request in frame f of caller t
PageLists(t) ==
    UNION {[1..n -> env.items] : n \in 0..(env.listed - Len(fr[t].seen))}

\* the server numbers the records it lists
RECURSIVE Numbered(_, _)
Numbered(kinds, from) ==
    IF kinds = <<>> THEN <<>>
    ELSE <<[Head(kinds) EXCEPT !.visitReserveIdx = from + 1]>>
         \o Numbered(Tail(kinds), from + 1)

PlainBodies == {[json |-> j, data |-> EmptyData] : j \in env.plainJson}

Bodies(t, status) ==
    IF status >= 400 THEN {[json |-> FALSE, data |-> EmptyData]}
    ELSE IF rq[t].method = "GET"
         THEN {[json |-> TRUE,
                data |-> [totalPages |-> tp,
                          reserveList |-> Numbered(l, Len(fr[t].seen))]] :
                  tp \in env.totals, l \in PageLists(t)}
              \cup {b \in PlainBodies : ~b.json}
         ELSE PlainBodies

AnyAnswers(t) ==
    UNION {{[status |-> st, body |-> b] : b \in Bodies(t, st)} : st \in env.statuses}

\* a server that keeps the reservations: it answers any request with any
\* status, a failing one with a body that is no JSON, and lists what it
\* holds on one page
ServerBodies(t, status) ==
    IF RequestFails(status) THEN {[json |-> FALSE, data |-> EmptyData]}
    ELSE IF rq[t].method = "GET"
         THEN {[json |-> TRUE,
                data |-> [totalPages |-> JAbsent, reserveList |-> server.list]]}
         ELSE PlainBodies

Answers(t) ==
    IF env.stateful
    THEN UNION {{[status |-> st, body |-> b] : b \in ServerBodies(t, st)} :
                   st \in env.statuses}
    ELSE AnyAnswers(t)

\* the record the server keeps for an accepted POST /pc/reserve/
ItemOf(payload, idx) ==
    [visitReserveIdx |-> idx, carNo |-> payload.carNo,
     visitDate |-> [present |-> TRUE, s |-> payload.visitDate],
     purpose |-> payload.purpose, phone |-> payload.phone,
     days |-> JInt(payload.days)]

\* what an answered request leaves on the server: a booking it accepts is
\* kept under a new id, a deletion it accepts removes the reservation of
\* that id; each counts as one change
ServerAfter(t, r) ==
    IF ~env.stateful \/ RequestFails(r.status) THEN server
    ELSE IF rq[t].method = "POST"
    THEN [server EXCEPT !.list = Append(@, ItemOf(rq[t].json_data, server.last + 1)),
                        !.last = @ + 1, !.writes = @ + 1]
    ELSE IF rq[t].method = "DELETE"
    THEN [server EXCEPT
             !.list = SelectSeq(@, LAMBDA i : i.visitReserveIdx # rq[t].path.n),
             !.writes = @ + 1]
    ELSE server

\* a request and its answer: tok is the bearer the request carried, stored is
\* self._token as it was when the request was sent, by the caller writer
ResEvent(t, r) ==
    [k |-> "res", status |-> r.status, body |-> "", tok |-> rq[t].hdr,
     ok |-> ~RequestFails(r.status), req |-> ReqOf(rq[t]),
     stored |-> rq[t].read, writer |-> rq[t].by]

\* lines 94-100, and the return to the caller of _request
Complete(t, r) ==
    IF RequestFails(r.status)
    THEN /\ pc' = [pc EXCEPT ![t] = "done"]
         /\ out' = [out EXCEPT ![t] = Raised("AptnerError")]
         /\ rq' = rq
    ELSE IF IsFetch(t)
    THEN /\ pc' = [pc EXCEPT ![t] = "resume"]
         /\ out' = out
         /\ rq' = [rq EXCEPT ![t].data = DataOf(r.body)]
    ELSE /\ pc' = [pc EXCEPT ![t] = "done"]
         /\ out' = [out EXCEPT ![t] = Returned(DataOf(r.body), <<>>, {})]
         /\ rq' = [rq EXCEPT ![t].data = DataOf(r.body)]

\* line 66: "if not self._token: self.authenticate()"
RequestEnter(t) ==
    /\ pc[t] = "req"
    /\ pc' = [pc EXCEPT ![t] = IF TokTruthy(token) THEN "send1" ELSE "auth_pre"]
    /\ UNCHANGED <<env, today, token, writer, op, rq, log, fr, out, calls, guiVars>>

\* lines 69-76: the header is written from the stored token and the request
\* is sent; the caller then waits for the answer while other callers run
SendFirst(t) ==
    /\ pc[t] = "send1"
    /\ rq' = [rq EXCEPT ![t].hdr = token, ![t].read = token, ![t].by = writer]
    /\ pc' = [pc EXCEPT ![t] = "wait1"]
    /\ UNCHANGED <<env, today, token, writer, op, log, fr, out, calls, guiVars>>

\* lines 76-84 and 94-100: the answer to the first request
ReceiveFirst(t) ==
    /\ pc[t] = "wait1"
    /\ \E r \in Answers(t) :
          /\ log' = [log EXCEPT ![t] = Append(@, ResEvent(t, r))]
          /\ IF IsUnauthorized(r.status)
             THEN /\ pc' = [pc EXCEPT ![t] = "auth_re"]
                  /\ UNCHANGED <<rq, out>>
             ELSE Complete(t, r)
          /\ server' = ServerAfter(t, r)
    /\ UNCHANGED <<env, today, token, writer, op, fr, calls, day_checks, weeks_spin,
                   dates, plan, app, job, signals, hist, clicks>>

\* lines 86-87: the header is written again and the one retry is sent
SendRetry(t) ==
    /\ pc[t] = "send2"
    /\ rq' = [rq EXCEPT ![t].hdr = RetryBearer(@, token), ![t].read = token,
                        ![t].by = writer]
    /\ pc' = [pc EXCEPT ![t] = "wait2"]
    /\ UNCHANGED <<env, today, token, writer, op, log, fr, out, calls, guiVars>>

\* lines 87-100: the answer to the retry
ReceiveRetry(t) ==
    /\ pc[t] = "wait2"
    /\ \E r \in Answers(t) :
          /\ log' = [log EXCEPT ![t] = Append(@, ResEvent(t, r))]
          /\ Complete(t, r)
          /\ server' = ServerAfter(t, r)
    /\ UNCHANGED <<env, today, token, writer, op, fr, calls, day_checks, weeks_spin,
                   dates, plan, app, job, signals, hist, clicks>>

----------------------------------------------------------------------------
(* reserve_car and delete_reservation *)

ReservePayload(car_no, visit_date, phone, purpose, days) ==
    [present |-> TRUE, visitDate |-> Strftime(visit_date), purpose |-> purpose,
     carNo |-> car_no, days |-> ClampDays(days), phone |-> phone]

CallReserveCar(t) ==
    \E car \in env.plates, d \in env.visitDates, n \in env.daySpans :
        /\ StartCall(t,
              [name |-> "reserve_car",
               arg |-> [NoArg EXCEPT !.car_no = [present |-> TRUE, s |-> car],
                                     !.visit_date = d, !.days = n]],
              [NoRq EXCEPT !.method = "POST",
                           !.path = [p |-> "/pc/reserve/", n |-> 0],
                           !.json_data = ReservePayload(car, d, "01000000000",
                                                        "visit", n)])
        /\ pc' = [pc EXCEPT ![t] = "req"]
        /\ fr' = [fr EXCEPT ![t] = NoFr]
        /\ UNCHANGED <<env, today, token, writer, guiVars>>

CallDeleteReservation(t) ==
    \E idx \in env.ids :
        /\ StartCall(t,
              [name |-> "delete_reservation", arg |-> [NoArg EXCEPT !.idx = idx]],
              [NoRq EXCEPT !.method = "DELETE",
                           !.path = [p |-> "/pc/reserve/", n |-> idx]])
        /\ pc' = [pc EXCEPT ![t] = "req"]
        /\ fr' = [fr EXCEPT ![t] = NoFr]
        /\ UNCHANGED <<env, today, token, writer, guiVars>>

----------------------------------------------------------------------------
(* get_reservations and get_reserved_dates *)

\* line 136: the safety limit
MAX_PAGES == 50

\* lines 104-107
NewFetch == [NoFr EXCEPT !.total_pages = 1, !.today = today]

CallGetReservations(t) ==
    /\ StartCall(t, [name |-> "get_reservations", arg |-> NoArg], NoRq)
    /\ pc' = [pc EXCEPT ![t] = "loop"]
    /\ fr' = [fr EXCEPT ![t] = NewFetch]
    /\ UNCHANGED <<env, today, token, writer, guiVars>>

\* line 145: get_reserved_dates starts with a fetch of its own
CallGetReservedDates(t) ==
    \E f \in env.filters :
        /\ StartCall(t, [name |-> "get_reserved_dates",
                         arg |-> [NoArg EXCEPT !.car_no = f]], NoRq)
        /\ pc' = [pc EXCEPT ![t] = "loop"]
        /\ fr' = [fr EXCEPT ![t] = NewFetch]
        /\ UNCHANGED <<env, today, token, writer, guiVars>>

\* line 109: the loop goes on
MorePages(f) == f.current_page < f.total_pages

HitsLimitNever(f) == FALSE

\* lines 135-137: the break
HitsLimit(f) == f.current_page >= MAX_PAGES

\* lines 109-111: the loop test, and the request for the next page
FetchLoop(t) ==
    /\ pc[t] = "loop"
    /\ IF MorePages(fr[t])
       THEN LET n == fr[t].current_page + 1 IN
            /\ fr' = [fr EXCEPT ![t].current_page = n,
                                ![t].pages = Append(@, n)]
            /\ rq' = [rq EXCEPT ![t] =
                         [NoRq EXCEPT !.method = "GET",
                                      !.path = [p |-> "/pc/reserves?pg=", n |-> n]]]
            /\ log' = [log EXCEPT ![t] = <<>>]
            /\ pc' = [pc EXCEPT ![t] = "req"]
       ELSE /\ pc' = [pc EXCEPT ![t] = "sort"]
            /\ UNCHANGED <<fr, rq, log>>
    /\ UNCHANGED <<env, today, token, writer, op, out, calls, guiVars>>

TotalAfterEveryPage(f, data) == TotalPagesOf(data)

\* lines 113-114: only page 1 sets total_pages
TotalAfter(f, data) ==
    IF f.current_page = 1 THEN TotalPagesOf(data)
    ELSE [ok |-> TRUE, n |-> f.total_pages]

\* lines 113-133: the frame after the work on the page `data`
FrameAfter(f, data) ==
    IF ~TotalAfter(f, data).ok
    THEN [f EXCEPT !.first = data.totalPages]
    ELSE [f EXCEPT
            !.total_pages = TotalAfter(f, data).n,
            !.reservations = ProcessItems(data.reserveList, f.today, @),
            !.seen = @ \o data.reserveList,
            !.first = IF f.current_page = 1 THEN data.totalPages ELSE @,
            !.differed = IF f.current_page = 1 THEN FALSE
                         ELSE @ \/ data.totalPages # f.first]

\* lines 113-137: the work on the page _request returned
FetchResume(t) ==
    /\ pc[t] = "resume"
    /\ \E total \in {TotalAfter(fr[t], rq[t].data)},
          frame \in {FrameAfter(fr[t], rq[t].data)} :
          /\ fr' = [fr EXCEPT ![t] = frame]
          /\ pc' = [pc EXCEPT ![t] =
                       IF ~total.ok THEN "done"
                       ELSE IF HitsLimit(frame) THEN "sort"
                       ELSE "loop"]
          /\ out' = [out EXCEPT ![t] = IF ~total.ok THEN Raised("ValueError") ELSE @]
    /\ rq' = [rq EXCEPT ![t].data = EmptyData]
    /\ UNCHANGED <<env, today, token, writer, op, log, calls, guiVars>>

\* lines 139-141, and for get_reserved_dates lines 146-159
FetchFinish(t) ==
    /\ pc[t] = "sort"
    /\ \E sorted \in {SortReservations(fr[t].reservations)} :
          /\ fr' = [fr EXCEPT ![t].reservations = sorted]
          /\ \E e \in {BuildRaises(sorted, op[t].arg.car_no)} :
                out' = [out EXCEPT ![t] =
                           IF op[t].name # "get_reserved_dates"
                           THEN Returned(EmptyData, sorted, {})
                           ELSE IF e # ""
                           THEN Raised(e)
                           ELSE Returned(EmptyData, sorted,
                                         BuildReserved(sorted, op[t].arg.car_no))]
    /\ pc' = [pc EXCEPT ![t] = "done"]
    /\ UNCHANGED <<env, today, token, writer, op, rq, log, calls, guiVars>>

----------------------------------------------------------------------------
(* The schedule form *)

\* QSpinBox.setRange(1, 12)
WEEKS_MIN == 1
WEEKS_MAX == 12

\* QSpinBox.setValue(4)
WEEKS_DEFAULT == 4

NoDates == [done |-> FALSE, selected |-> {}, weeks |-> 0, anchor |-> 0, list |-> <<>>]

\* a weekday box is checked or cleared
ToggleDay ==
    /\ ~dates.done
    /\ \E i \in 0..6 :
          day_checks' = IF i \in day_checks THEN day_checks \ {i} ELSE day_checks \cup {i}
    /\ UNCHANGED <<env, today, clientVars, weeks_spin, dates, appVars>>

\* the spinner is set
SetWeeks ==
    /\ ~dates.done
    /\ \E w \in WEEKS_MIN..WEEKS_MAX : weeks_spin' = w
    /\ UNCHANGED <<env, today, clientVars, day_checks, dates, appVars>>

\* _preview_dates and _register_reservations both start with the expansion
ExpandSchedule ==
    /\ ~dates.done
    /\ dates' = [done |-> TRUE, selected |-> day_checks, weeks |-> weeks_spin,
                 anchor |-> today,
                 list |-> GetScheduleDates(day_checks, weeks_spin, today)]
    /\ UNCHANGED <<env, today, clientVars, day_checks, weeks_spin, appVars>>

----------------------------------------------------------------------------
(* The application: its workers, their signals and the handlers *)

Free(t) == job[t].func = "none"
Job(f) == [NoJob EXCEPT !.func = f, !.at = "start"]

Signal(t, kind) ==
    [from |-> t, kind |-> kind, func |-> job[t].func,
     reservations |-> <<>>, reserved |-> {},
     success |-> 0, failed |-> 0, new_dates |-> job[t].new_dates,
     tried |-> job[t].tried, car_no |-> job[t].car_no, row |-> job[t].row,
     mark |-> job[t].mark, cause |-> job[t].cause, no |-> job[t].no,
     was |-> job[t].was]

\* a new WorkerThread starts with no client call of its own
FreshFrames(t) ==
    /\ pc' = [pc EXCEPT ![t] = "idle"]
    /\ op' = [op EXCEPT ![t] = NoOp]
    /\ rq' = [rq EXCEPT ![t] = NoRq]
    /\ log' = [log EXCEPT ![t] = <<>>]
    /\ fr' = [fr EXCEPT ![t] = NoFr]
    /\ out' = [out EXCEPT ![t] = NoOut]

\* the worker's function calls a method of the client
BeginCall(t, o, f, at, frame) ==
    /\ op' = [op EXCEPT ![t] = o]
    /\ rq' = [rq EXCEPT ![t] = f]
    /\ log' = [log EXCEPT ![t] = <<>>]
    /\ out' = [out EXCEPT ![t] = NoOut]
    /\ pc' = [pc EXCEPT ![t] = at]
    /\ fr' = [fr EXCEPT ![t] = frame]

\* WorkerThread.run lines 90 and 92: the signal is emitted, the thread ends
Emit(t, sig) ==
    /\ signals' = Append(signals, sig)
    /\ job' = [job EXCEPT ![t].at = "emitted"]
    /\ FreshFrames(t)

\* login() lines 259-260: create_client_from_env() raises AptnerError when
\* APTNER_ID or APTNER_PW is not set, and WorkerThread.run emits the error
\* with no request sent; otherwise client.authenticate() is called
LoginRun(t) ==
    /\ job[t].func = "login" /\ job[t].at = "start"
    /\ \E c \in env.creds :
          IF c
          THEN /\ BeginCall(t, [name |-> "authenticate", arg |-> NoArg], NoRq,
                            "auth_top", NoFr)
               /\ job' = [job EXCEPT ![t].at = "wait"]
               /\ signals' = signals
          ELSE Emit(t, Signal(t, "error"))
    /\ UNCHANGED <<env, today, token, writer, calls, day_checks, weeks_spin, dates,
                   plan, app, hist, clicks, server>>

\* login() line 261 and WorkerThread.run
LoginEnd(t) ==
    /\ job[t].func = "login" /\ job[t].at = "wait" /\ pc[t] = "done"
    /\ Emit(t, Signal(t, IF out[t].kind = "return" THEN "finished" ELSE "error"))
    /\ UNCHANGED <<env, today, token, writer, calls, day_checks, weeks_spin, dates,
                   plan, app, hist, clicks, server>>

\* fetch() line 283: self.client.get_reservations()
FetchRun(t) ==
    /\ job[t].func = "fetch" /\ job[t].at = "start"
    /\ BeginCall(t, [name |-> "get_reservations", arg |-> NoArg], NoRq, "loop", NewFetch)
    /\ job' = [job EXCEPT ![t].at = "first"]
    /\ UNCHANGED <<env, today, token, writer, calls, day_checks, weeks_spin, dates,
                   plan, app, signals, hist, clicks, server>>

\* fetch() line 284: self.client.get_reserved_dates(), once line 283 returned;
\* an exception of line 283 leaves fetch() and is emitted as an error
FetchSecond(t) ==
    /\ job[t].func = "fetch" /\ job[t].at = "first" /\ pc[t] = "done"
    /\ IF out[t].kind = "return"
       THEN /\ BeginCall(t, [name |-> "get_reserved_dates", arg |-> NoArg], NoRq,
                         "loop", NewFetch)
            /\ job' = [job EXCEPT ![t].at = "second",
                                  ![t].reservations = out[t].list]
            /\ signals' = signals
       ELSE Emit(t, Signal(t, "error"))
    /\ UNCHANGED <<env, today, token, writer, calls, day_checks, weeks_spin, dates,
                   plan, app, hist, clicks, server>>

\* fetch() line 285 and WorkerThread.run
FetchEnd(t) ==
    /\ job[t].func = "fetch" /\ job[t].at = "second" /\ pc[t] = "done"
    /\ IF out[t].kind = "return"
       THEN Emit(t, [Signal(t, "finished") EXCEPT
                        !.reservations = job[t].reservations,
                        !.reserved = out[t].set])
       ELSE Emit(t, Signal(t, "error"))
    /\ UNCHANGED <<env, today, token, writer, calls, day_checks, weeks_spin, dates,
                   plan, app, hist, clicks, server>>

\* delete() line 329: self.client.delete_reservation(idx)
DeleteRun(t) ==
    /\ job[t].func = "delete" /\ job[t].at = "start"
    /\ BeginCall(t, [name |-> "delete_reservation",
                     arg |-> [NoArg EXCEPT !.idx = job[t].row.idx]],
                 [NoRq EXCEPT !.method = "DELETE",
                              !.path = [p |-> "/pc/reserve/", n |-> job[t].row.idx]],
                 "req", NoFr)
    /\ job' = [job EXCEPT ![t].at = "wait"]
    /\ UNCHANGED <<env, today, token, writer, calls, day_checks, weeks_spin, dates,
                   plan, app, signals, hist, clicks, server>>

\* WorkerThread.run for delete(); the pairs the deleted row had in the index
\* are booked no more
DeleteEnd(t) ==
    /\ job[t].func = "delete" /\ job[t].at = "wait" /\ pc[t] = "done"
    /\ Emit(t, Signal(t, IF out[t].kind = "return" THEN "finished" ELSE "error"))
    /\ hist' = IF out[t].kind = "return" THEN hist \ PairsOf(job[t].row).set ELSE hist
    /\ UNCHANGED <<env, today, token, writer, calls, day_checks, weeks_spin, dates,
                   plan, app, clicks, server>>

RegisterArgSpan(car_no, d, new_dates) ==
    [NoArg EXCEPT !.car_no = [present |-> TRUE, s |-> car_no], !.visit_date = d,
                  !.days = Len(new_dates)]

\* register_all lines 419-425: the arguments of one reserve_car call
RegisterArg(car_no, d, new_dates) ==
    [NoArg EXCEPT !.car_no = [present |-> TRUE, s |-> car_no], !.visit_date = d,
                  !.days = 1]

AfterAttemptAborts(j, d, raised, sent) ==
    [j EXCEPT !.k = IF raised THEN Len(j.new_dates) ELSE @ + 1,
              !.success = IF raised THEN @ ELSE @ + 1,
              !.failed = IF raised THEN @ + 1 ELSE @,
              !.tried = Append(@, [date |-> d, ok |-> ~raised, sent |-> sent]),
              !.at = "loop"]

\* register_all lines 426-428: the attempt is counted and the loop goes on
AfterAttempt(j, d, raised, sent) ==
    [j EXCEPT !.k = @ + 1,
              !.success = IF raised THEN @ ELSE @ + 1,
              !.failed = IF raised THEN @ + 1 ELSE @,
              !.tried = Append(@, [date |-> d, ok |-> ~raised, sent |-> sent]),
              !.at = "loop"]

\* register_all lines 417-425 and 429: the next date is tried, or the counts
\* are returned; without a client line 419 raises AttributeError at once
RegisterStep(t) ==
    /\ job[t].func = "register_all" /\ job[t].at = "loop"
    /\ IF job[t].k < Len(job[t].new_dates)
       THEN LET d == job[t].new_dates[job[t].k + 1]
                a == RegisterArg(job[t].car_no, d, job[t].new_dates)
            IN  IF app.client
                THEN /\ BeginCall(t, [name |-> "reserve_car", arg |-> a],
                                  [NoRq EXCEPT
                                      !.method = "POST",
                                      !.path = [p |-> "/pc/reserve/", n |-> 0],
                                      !.json_data =
                                          ReservePayload(a.car_no.s, a.visit_date,
                                                         "01000000000", "visit", a.days)],
                                  "req", NoFr)
                     /\ job' = [job EXCEPT ![t].at = "wait"]
                     /\ signals' = signals
                ELSE /\ job' = [job EXCEPT ![t] = AfterAttempt(@, d, TRUE, FALSE)]
                     /\ UNCHANGED <<pc, op, rq, log, fr, out, signals>>
       ELSE Emit(t, [Signal(t, "finished") EXCEPT !.success = job[t].success,
                                                   !.failed = job[t].failed])
    /\ UNCHANGED <<env, today, token, writer, calls, day_checks, weeks_spin, dates,
                   plan, app, hist, clicks, server>>

\* register_all lines 426-428, when reserve_car has returned or raised
RegisterCaught(t) ==
    /\ job[t].func = "register_all" /\ job[t].at = "wait" /\ pc[t] = "done"
    /\ job' = [job EXCEPT ![t] = AfterAttempt(@, op[t].arg.visit_date,
                                               out[t].kind # "return", TRUE)]
    /\ hist' = IF out[t].kind = "return"
               THEN hist \cup {<<op[t].arg.car_no.s, op[t].arg.visit_date>>}
               ELSE hist
    /\ UNCHANGED <<env, today, clientVars, day_checks, weeks_spin, dates,
                   plan, app, signals, clicks, server>>

RefreshNever(a) == NoJob

\* _refresh_reservations lines 279-291: the worker it starts, if any
Refresh(a) == IF a.client THEN Job("fetch") ELSE NoJob

AfterErrorClears(a) == [a EXCEPT !.reservations = <<>>, !.reserved_dates = {}]

\* the error handlers (lines 274-276, 289, 333, 433) only write to the log
AfterError(a) == a

\* what the refresh started by the handler of signal s is remembered for
CauseOf(s) ==
    CASE s.func = "register_all" ->
            [created |-> {<<s.car_no, s.tried[i].date>> :
                             i \in {k \in 1..Len(s.tried) : s.tried[k].ok}},
             gone |-> {}, due |-> s.mark + s.success]
      [] s.func = "delete" ->
            [created |-> {}, gone |-> PairsOf(s.row).set, due |-> s.mark + 1]
      [] OTHER -> NoCause
Caused(j, s) == IF j.func = "none" THEN j ELSE [j EXCEPT !.cause = CauseOf(s)]

\* refresh workers are numbered in the order they are started
NextNo ==
    LET S == {job[t].no : t \in Threads} \cup {signals[i].no : i \in 1..Len(signals)}
             \cup {app.newest}
    IN  1 + CHOOSE n \in S : \A m \in S : m <= n
Started(j) ==
    IF j.func = "none" THEN j
    ELSE [j EXCEPT !.no = NextNo,
                   !.was = [reservations |-> app.reservations,
                            reserved_dates |-> app.reserved_dates]]

\* _on_reservations_fetched line 294
AfterFetched(a, s) ==
    [a EXCEPT !.reservations = s.reservations, !.reserved_dates = s.reserved,
              !.shown = s.no, !.newest = IF s.no > @ THEN s.no ELSE @]

\* the GUI thread handles the oldest signal: _on_login_success,
\* _on_reservations_fetched, _on_delete_success, _on_register_complete or an
\* error handler; the refresh they start runs in a new worker
Deliver ==
    /\ signals # <<>>
    /\ LET s == Head(signals) IN
       /\ signals' = Tail(signals)
       /\ app' = CASE s.kind = "error" -> AfterError(app)
                   [] s.kind # "error" /\ s.func = "login" -> [app EXCEPT !.client = TRUE]
                   [] s.kind # "error" /\ s.func = "fetch" -> AfterFetched(app, s)
                   [] OTHER -> app
       /\ job' = [job EXCEPT ![s.from] =
                     CASE s.kind = "error" -> NoJob
                       [] s.kind # "error" /\ s.func = "login" ->
                              Started(Caused(Job("fetch"), s))
                       [] s.kind # "error" /\ s.func = "fetch" -> NoJob
                       [] OTHER -> Started(Caused(Refresh(app), s))]
    /\ UNCHANGED <<env, today, clientVars, day_checks, weeks_spin, dates,
                   plan, hist, clicks, server>>

\* the slot of a new WorkerThread: the login worker and one worker a click
\* are all that can be in flight, so one is always free
FreeSlot == CHOOSE t \in Threads : Free(t)

\* a confirmation dialog is open: the window takes no click, while the
\* dialog's event loop goes on handling the workers' signals
DialogOpen == \E t \in Threads : job[t].at = "asked"

\* the refresh button
ClickRefresh ==
    /\ clicks < env.clicks
    /\ ~DialogOpen
    /\ app.client
    /\ job' = [job EXCEPT ![FreeSlot] = Started(Refresh(app))]
    /\ clicks' = clicks + 1
    /\ UNCHANGED <<env, today, clientVars, day_checks, weeks_spin, dates,
                   plan, app, signals, hist, server>>

\* the register button, _register_reservations lines 379-403, with a valid
\* phone number: the new dates are computed and the confirmation is asked
ClickRegister ==
    /\ clicks < env.clicks
    /\ ~DialogOpen
    /\ \E car \in env.plates :
          LET ds == GetScheduleDates(day_checks, weeks_spin, today)
              nd == NewDates(ds, car, app.reserved_dates)
          IN  /\ ds # <<>>
              /\ nd # <<>>
              /\ job' = [job EXCEPT ![FreeSlot] =
                            [Job("register_all") EXCEPT !.at = "asked",
                                                        !.new_dates = nd,
                                                        !.car_no = car]]
    /\ clicks' = clicks + 1
    /\ UNCHANGED <<env, today, clientVars, day_checks, weeks_spin, dates,
                   plan, app, signals, hist, server>>

\* lines 403-436, the confirmation answered Yes: the worker is started with
\* the dates computed before the dialog
ConfirmRegister(t) ==
    /\ job[t].func = "register_all" /\ job[t].at = "asked"
    /\ job' = [job EXCEPT ![t].at = "loop", ![t].mark = server.writes]
    /\ UNCHANGED <<env, today, clientVars, day_checks, weeks_spin, dates,
                   plan, app, signals, hist, clicks, server>>

\* a delete button of the table, _delete_reservation lines 314-322: the row
\* has an id and the confirmation is asked
ClickDelete ==
    /\ clicks < env.clicks
    /\ ~DialogOpen
    /\ \E i \in 1..Len(app.reservations) :
          /\ app.reservations[i].idx # 0
          /\ job' = [job EXCEPT ![FreeSlot] =
                        [Job("delete") EXCEPT !.at = "asked",
                                              !.row = app.reservations[i]]]
    /\ clicks' = clicks + 1
    /\ UNCHANGED <<env, today, clientVars, day_checks, weeks_spin, dates,
                   plan, app, signals, hist, server>>

\* lines 322-335, the confirmation answered Yes: the worker is started for
\* the id of the row that was clicked
ConfirmDelete(t) ==
    /\ job[t].func = "delete" /\ job[t].at = "asked"
    /\ job' = [job EXCEPT ![t].at = "start", ![t].mark = server.writes]
    /\ UNCHANGED <<env, today, clientVars, day_checks, weeks_spin, dates,
                   plan, app, signals, hist, clicks, server>>

\* line 397 alone: the plan for the candidates, vehicle and index at hand
PlanSubmission ==
    /\ ~plan.done
    /\ plan' = [plan EXCEPT !.done = TRUE,
                            !.new_dates = NewDates(plan.dates, plan.car_no,
                                                   plan.reserved_dates)]
    /\ UNCHANGED <<env, today, clientVars, day_checks, weeks_spin, dates,
                   app, job, signals, hist, clicks, server>>

----------------------------------------------------------------------------
(* What the server may answer, and the specifications *)

\* plates "123" and "2": the longer one sorts first
PlateA == <<49, 50, 51>>
PlateB == <<50>>

Day0 == Ordinal(2024, 2, 29)

Txt(s) == [present |-> TRUE, s |-> s]
NoTxt == [present |-> FALSE, s |-> <<>>]

Item(txt, car, days) ==
    [visitReserveIdx |-> 0, carNo |-> car, visitDate |-> txt,
     purpose |-> "visit", phone |-> "01000000000", days |-> days]

\* the records a page may list: dated today or later with every kind of
\* day-span (a string among them), a date whose year is written in
\* fullwidth digits (65296 is the fullwidth zero), with a one-digit month
\* and a space before a one-digit day, and a date whose last digit is
\* Arabic-Indic (1641 is its nine), which all parse; a past date, a date
\* that does not exist, a text in another format (45 is "-"), no date; a
\* three-day reservation that ends on 9999-12-31, the last date there is,
\* and a two-day reservation that starts on it
FetchItems ==
    {Item(Txt(Strftime(Day0)), PlateA, JAbsent),
     Item(Txt(Strftime(Day0)), PlateB, JNull),
     Item(Txt(Strftime(Day0 + 1)), PlateA, JInt(2)),
     Item(Txt(<<65298, 65296, 65298, 65300, 46, 51, 46, 32, 49>>), PlateB, JInt(0)),
     Item(Txt(Strftime(Day0)), PlateA, JInt(-1)),
     Item(Txt(<<50, 48, 50, 52, 46, 48, 50, 46, 50, 1641>>), PlateB, JText),
     Item(Txt(Strftime(Day0 - 1)), PlateA, JInt(2)),
     Item(Txt(<<50, 48, 50, 52, 46, 48, 50, 46, 51, 48>>), PlateB, JInt(1)),
     Item(Txt(<<50, 48, 50, 52, 45, 48, 51, 45, 48, 49>>), PlateB, JInt(1)),
     Item(NoTxt, PlateA, JInt(1)),
     Item(Txt(Strftime(Ordinal(9999, 12, 29))), PlateA, JInt(3)),
     Item(Txt(Strftime(Ordinal(9999, 12, 31))), PlateB, JInt(2))}

\* answers of the identity endpoint whose body is a JSON object
AuthAnswers(statuses, tokens) ==
    {[status |-> st, body |-> "object", accessToken |-> tk] :
        st \in statuses, tk \in tokens}

NoEnv ==
    [threads |-> {}, calls |-> 0, clicks |-> 0, listed |-> MaxItems, todays |-> {Day0},
     selections |-> {{}}, weeks |-> {WEEKS_DEFAULT},
     statuses |-> {}, auths |-> {}, plainJson |-> {},
     totals |-> {}, items |-> {}, filters |-> {},
     plates |-> {}, visitDates |-> {}, daySpans |-> {}, ids |-> {},
     stateful |-> FALSE, held |-> {<<>>}, creds |-> {TRUE}]

\* two workers calling the client at once
EnvClient ==
    [NoEnv EXCEPT
        !.threads = {"w1", "w2"}, !.calls = MaxCalls,
        !.statuses = {200, 400, 401},
        !.auths = AuthAnswers({200}, {NoToken, Tok(""), Tok("T1"), Tok("T2")})
                  \cup AuthAnswers({401}, {NoToken, Tok("T1")})
                  \cup {[status |-> 200, body |-> b, accessToken |-> NoToken] :
                           b \in {"text", "array"}},
        !.plainJson = {TRUE},
        !.plates = {PlateA}, !.visitDates = {Day0}, !.daySpans = {1},
        !.ids = {7}]

\* one worker booking with any day-span
EnvReserve ==
    [NoEnv EXCEPT
        !.threads = {"w1"}, !.calls = MaxCalls,
        !.statuses = {200, 401, 500},
        !.auths = AuthAnswers({200, 401}, {Tok("T1")}),
        !.plainJson = {TRUE, FALSE},
        !.plates = {PlateA}, !.visitDates = {Day0},
        !.daySpans = {-3, 0, 1, 2, MAX_DAYS_PER_RESERVATION - 1,
                      MAX_DAYS_PER_RESERVATION, MAX_DAYS_PER_RESERVATION + 1, 45},
        !.ids = {7}]

\* one fetch against a server that may report any page count
EnvPages ==
    [NoEnv EXCEPT
        !.threads = {"w1"}, !.calls = 1,
        !.statuses = {200, 401, 500},
        !.auths = AuthAnswers({200, 401}, {Tok("T1")}),
        !.totals = {JAbsent, JNull, JText, JEmpty, JInt(-1), JInt(0), JInt(1), JInt(2),
                    JInt(3), JInt(MAX_PAGES - 1), JInt(MAX_PAGES),
                    JInt(MAX_PAGES + 1), JInt(2 * MAX_PAGES)},
        !.plainJson = {FALSE},
        !.items = {Item(Txt(Strftime(Day0)), PlateA, JAbsent)},
        !.filters = {NoTxt}]

\* one fetch of a few pages holding any records
EnvFetch ==
    [NoEnv EXCEPT
        !.threads = {"w1"}, !.calls = 1,
        !.statuses = {200, 401, 500},
        !.auths = AuthAnswers({200, 401}, {Tok("T1")}),
        !.totals = {JAbsent, JInt(2), JInt(3)},
        !.items = FetchItems,
        !.filters = {NoTxt, Txt(<<>>), Txt(PlateA)}]

\* the schedule form alone, on each day of a week
EnvSchedule ==
    [NoEnv EXCEPT !.todays = {Ordinal(2024, 1, 1) + i : i \in 0..6}]

\* no worker, nothing fetched
InitIdleApp ==
    /\ app = NoApp
    /\ job = [t \in Threads |-> NoJob]
    /\ signals = <<>>
    /\ hist = {}
    /\ clicks = 0

InitClient(e) ==
    /\ env = e
    /\ today \in e.todays
    /\ token = NoToken
    /\ writer = "none"
    /\ pc = [t \in Threads |-> "idle"]
    /\ op = [t \in Threads |-> NoOp]
    /\ rq = [t \in Threads |-> NoRq]
    /\ log = [t \in Threads |-> <<>>]
    /\ fr = [t \in Threads |-> NoFr]
    /\ out = [t \in Threads |-> NoOut]
    /\ calls = 0
    /\ server \in {[NoServer EXCEPT !.list = Numbered(l, 0), !.last = Len(l)] :
                       l \in e.held}

Tuesday == 1

\* the application on Monday 2024-01-01 with Tuesday and Wednesday checked
\* for one week, with the credentials set in the environment or not, against
\* a server that may list a Tuesday reservation
EnvApp ==
    [NoEnv EXCEPT
        !.threads = Threads, !.clicks = MaxClicks, !.listed = 1,
        !.todays = {Ordinal(2024, 1, 1)},
        !.selections = {{Tuesday, Tuesday + 1}}, !.weeks = {WEEKS_MIN},
        !.statuses = {200, 401},
        !.auths = AuthAnswers({200}, {Tok("T1")}) \cup AuthAnswers({401}, {NoToken}),
        !.totals = {JAbsent},
        !.plainJson = {TRUE},
        !.items = {Item(Txt(Strftime(Ordinal(2024, 1, 2))), PlateA, JAbsent)},
        !.plates = {PlateA},
        !.creds = {TRUE, FALSE}]

\* the same against a server that keeps the reservations: it holds none, a
\* Tuesday one, two for the same Tuesday, or one whose day-span is a string,
\* and may fail any request
EnvServer ==
    [EnvApp EXCEPT
        !.stateful = TRUE,
        !.statuses = {200, 500},
        !.held = {<<>>,
                  <<Item(Txt(Strftime(Ordinal(2024, 1, 2))), PlateA, JAbsent)>>,
                  <<Item(Txt(Strftime(Ordinal(2024, 1, 2))), PlateA, JAbsent),
                    Item(Txt(Strftime(Ordinal(2024, 1, 2))), PlateA, JAbsent)>>,
                  <<Item(Txt(Strftime(Ordinal(2024, 1, 2))), PlateA, JText)>>}]

\* the same for a user who is logged in and clicks once more, so that two
\* operations may change the server at once, with Tuesday alone checked
\* and the server holding nothing or two reservations for that Tuesday
EnvBusy ==
    [EnvServer EXCEPT
        !.clicks = MaxClicks + 1, !.selections = {{Tuesday}},
        !.held = {<<>>,
                  <<Item(Txt(Strftime(Ordinal(2024, 1, 2))), PlateA, JAbsent),
                    Item(Txt(Strftime(Ordinal(2024, 1, 2))), PlateA, JAbsent)>>}]

\* the same for a user who is logged in, with Tuesday alone checked and
\* nothing or a Tuesday reservation held, against a server that may answer
\* any request with 401, so that a call re-authenticates and retries
EnvExpired ==
    [EnvServer EXCEPT
        !.selections = {{Tuesday}}, !.statuses = {200, 401},
        !.held = {<<>>,
                  <<Item(Txt(Strftime(Ordinal(2024, 1, 2))), PlateA, JAbsent)>>}]

\* the same server holding nothing and accepting every booking, with
\* Tuesday alone checked and one more click
EnvRebook ==
    [EnvServer EXCEPT !.clicks = MaxClicks + 1, !.selections = {{Tuesday}},
                      !.statuses = {200, 401},
                      !.held = {<<>>}]

\* a logged-in user who clicks the refresh button twice, against a server
\* that lists the Tuesday reservation or nothing, on one page or the first
\* of two, and may fail any request
EnvRefresh ==
    [EnvApp EXCEPT !.clicks = MaxClicks + 1,
                   !.statuses = {200, 401, 500},
                   !.totals = {JAbsent, JInt(2)}]

\* AptnerApp.__init__: the form as the user has set it, and the login
\* worker of _auto_login started
InitApp(e) ==
    /\ InitClient(e)
    /\ day_checks \in e.selections
    /\ weeks_spin \in e.weeks
    /\ dates = NoDates
    /\ plan = NoPlan
    /\ app = NoApp
    /\ job = [t \in Threads |-> IF t = "w1" THEN Job("login") ELSE NoJob]
    /\ signals = <<>>
    /\ hist = {}
    /\ clicks = 0

\* the application once the login worker has stored its token, the client
\* is set and the first refresh has been handled: no worker is in flight,
\* and the list and the index are those of what the server holds, or still
\* empty when get_reserved_dates raised on it
InitLoggedIn(e) ==
    /\ env = e
    /\ today \in e.todays
    /\ token = Tok("T1")
    /\ writer = "w1"
    /\ pc = [t \in Threads |-> "idle"]
    /\ op = [t \in Threads |-> NoOp]
    /\ rq = [t \in Threads |-> NoRq]
    /\ log = [t \in Threads |-> <<>>]
    /\ fr = [t \in Threads |-> NoFr]
    /\ out = [t \in Threads |-> NoOut]
    /\ calls = 0
    /\ server \in {[NoServer EXCEPT !.list = Numbered(l, 0), !.last = Len(l)] :
                       l \in e.held}
    /\ day_checks \in e.selections
    /\ weeks_spin \in e.weeks
    /\ dates = NoDates
    /\ plan = NoPlan
    /\ LET sorted == SortReservations(ProcessItems(server.list, today, <<>>)) IN
       app = IF BuildRaises(sorted, NoTxt) # ""
             THEN [NoApp EXCEPT !.client = TRUE]
             ELSE [NoApp EXCEPT !.client = TRUE, !.shown = 1, !.newest = 1,
                                !.reservations = sorted,
                                !.reserved_dates = BuildReserved(sorted, NoTxt)]
    /\ job = [t \in Threads |-> NoJob]
    /\ signals = <<>>
    /\ hist = {}
    /\ clicks = 0

\* planning alone: two vehicles, three dates
EnvPlan ==
    [NoEnv EXCEPT !.plates = {PlateA, PlateB},
                  !.visitDates = {Day0, Day0 + 1, Day0 + 2}]

InitWith(e) ==
    /\ InitClient(e)
    /\ day_checks = {}
    /\ weeks_spin = WEEKS_DEFAULT
    /\ dates = NoDates
    /\ plan = NoPlan
    /\ InitIdleApp

\* the candidate lists, vehicles and indexes a plan may be computed from
PlanInputs(e) ==
    {[NoPlan EXCEPT !.dates = c, !.car_no = v, !.reserved_dates = r] :
        c \in UNION {[1..n -> e.visitDates] : n \in 0..MaxLen},
        v \in e.plates,
        r \in SUBSET (e.plates \X e.visitDates)}

InitPlan(e) ==
    /\ InitClient(e)
    /\ day_checks = {}
    /\ weeks_spin = WEEKS_DEFAULT
    /\ dates = NoDates
    /\ plan \in PlanInputs(e)
    /\ InitIdleApp

RequestStep(t) ==
    \/ RequestEnter(t)
    \/ Authenticate(t)
    \/ SendFirst(t)
    \/ ReceiveFirst(t)
    \/ SendRetry(t)
    \/ ReceiveRetry(t)

NextClient ==
    \E t \in Threads :
        \/ CallAuthenticate(t)
        \/ CallReserveCar(t)
        \/ CallDeleteReservation(t)
        \/ RequestStep(t)

NextFetch ==
    \E t \in Threads :
        \/ CallGetReservations(t)
        \/ CallGetReservedDates(t)
        \/ RequestStep(t)
        \/ FetchLoop(t)
        \/ FetchResume(t)
        \/ FetchFinish(t)

\* a step of the worker in slot t: its function, the client call it has
\* made, or the emission of its signal
WorkerStep(t) ==
    \/ LoginRun(t)
    \/ LoginEnd(t)
    \/ FetchRun(t)
    \/ FetchSecond(t)
    \/ FetchEnd(t)
    \/ DeleteRun(t)
    \/ DeleteEnd(t)
    \/ RegisterStep(t)
    \/ RegisterCaught(t)
    \/ RequestStep(t)
    \/ FetchLoop(t)
    \/ FetchResume(t)
    \/ FetchFinish(t)

\* a step that is not the user's: a signal is handled or a worker runs
Progress == Deliver \/ \E t \in Threads : WorkerStep(t)

NextApp ==
    \/ ClickRefresh
    \/ ClickRegister
    \/ ClickDelete
    \/ Deliver
    \/ \E t \in Threads :
          \/ ConfirmRegister(t)
          \/ ConfirmDelete(t)
          \/ WorkerStep(t)

\* the application, logged in, of a user who clicks the refresh button only
NextRefresh ==
    \/ ClickRefresh
    \/ Deliver
    \/ \E t \in Threads :
          \/ FetchRun(t)
          \/ FetchSecond(t)
          \/ FetchEnd(t)
          \/ RequestStep(t)
          \/ FetchLoop(t)
          \/ FetchResume(t)
          \/ FetchFinish(t)

\* the application, logged in, of a user who clicks the register button only
NextRebook ==
    \/ ClickRegister
    \/ Deliver
    \/ \E t \in Threads :
          \/ FetchRun(t)
          \/ FetchSecond(t)
          \/ FetchEnd(t)
          \/ ConfirmRegister(t)
          \/ RegisterStep(t)
          \/ RegisterCaught(t)
          \/ RequestStep(t)
          \/ FetchLoop(t)
          \/ FetchResume(t)
          \/ FetchFinish(t)

SpecClient == InitWith(EnvClient) /\ [][NextClient]_vars
SpecPages == InitWith(EnvPages) /\ [][NextFetch]_vars
SpecFetch == InitWith(EnvFetch) /\ [][NextFetch]_vars
SpecSchedule == InitWith(EnvSchedule) /\ [][ToggleDay \/ SetWeeks \/ ExpandSchedule]_vars
SpecPlan == InitPlan(EnvPlan) /\ [][PlanSubmission]_vars
SpecReserve == InitWith(EnvReserve) /\ [][NextClient]_vars
SpecApp == InitApp(EnvApp) /\ [][NextApp]_vars
SpecRebook == InitLoggedIn(EnvRebook) /\ [][NextRebook]_vars
SpecRefresh == InitLoggedIn(EnvRefresh) /\ [][NextRefresh]_vars
\* the GUI thread's event loop handles the queued signals and the worker
\* threads that can run do, the server answering them: the application does
\* not stop while one of them has a step to take.  The steps of the user
\* alone may never come
SpecServer ==
    /\ InitApp(EnvServer) \/ InitLoggedIn(EnvBusy) \/ InitLoggedIn(EnvExpired)
    /\ [][NextApp]_vars
    /\ WF_vars(Progress)

----------------------------------------------------------------------------
(* Properties of _request and authenticate, under SpecClient *)

ResIdx(l) == {i \in 1..Len(l) : l[i].k = "res"}
AuthIdx(l) == {i \in 1..Len(l) : l[i].k = "auth"}
FirstRes(l) == CHOOSE i \in ResIdx(l) : \A j \in ResIdx(l) : i <= j
\* the authenticate calls made after the first resource request
ReAuths(l) == {i \in AuthIdx(l) : i > FirstRes(l)}
\* the resource requests made after the first one
Retries(l) == ResIdx(l) \ {FirstRes(l)}
FirstGot401(l) == ResIdx(l) # {} /\ l[FirstRes(l)].status = 401

\* C1 as stated: once a call whose first resource request was answered 401 has
\* ended, it has made exactly one authenticate call after that answer and then
\* exactly one more resource request, for the same method, path and body and
\* carrying the token that authenticate call stored.
C1_RetryAlways ==
    \A t \in Threads :
        LET l == log[t] IN
        (pc[t] = "done" /\ FirstGot401(l)) =>
            /\ Cardinality(ReAuths(l)) = 1
            /\ Cardinality(Retries(l)) = 1
            /\ \A a \in ReAuths(l), i \in Retries(l) :
                  /\ a < i
                  /\ l[i].req = l[FirstRes(l)].req
                  /\ l[a].ok /\ l[i].tok = l[a].tok

\* C1, amended: a call never makes more than two resource requests, nor more
\* than one authenticate call after its first resource request, and none
\* unless that request was answered 401.  Once a call whose first resource
\* request was answered 401 has ended it has made exactly one authenticate
\* call after it; if that call stored a token, exactly one retry followed,
\* for the same method, path and body, carrying the client's stored token as
\* it was when the retry was sent, which is the token that call stored unless
\* another caller's authenticate has stored one since; if that call failed,
\* no retry was made and the call ended with the exception authenticate
\* raised: AptnerAuthError for a status of 400 or more or a JSON object
\* without a token, the JSON decoding error for a body that is no JSON, and
\* AttributeError for JSON that is not an object.
C1_SingleRetry ==
    \A t \in Threads :
        LET l == log[t] IN
        /\ Cardinality(ResIdx(l)) <= 2
        /\ ResIdx(l) # {} => Cardinality(ReAuths(l)) <= 1
        /\ (ResIdx(l) # {} /\ ~FirstGot401(l)) => (ReAuths(l) = {} /\ Retries(l) = {})
        /\ (pc[t] = "done" /\ FirstGot401(l)) =>
              /\ Cardinality(ReAuths(l)) = 1
              /\ \A a \in ReAuths(l) :
                    IF l[a].status < 400 /\ l[a].body = "object" /\ TokTruthy(l[a].tok)
                    THEN /\ Cardinality(Retries(l)) = 1
                         /\ \A i \in Retries(l) :
                               /\ a < i
                               /\ l[i].req = l[FirstRes(l)].req
                               /\ l[i].tok = l[i].stored
                               /\ l[i].writer = t => l[i].tok = l[a].tok
                    ELSE /\ Retries(l) = {}
                         /\ out[t].kind = "raise"
                         /\ out[t].exc =
                               CASE l[a].status >= 400 -> "AptnerAuthError"
                                 [] l[a].status < 400 /\ l[a].body = "text" ->
                                        "JSONDecodeError"
                                 [] l[a].status < 400 /\ l[a].body = "array" ->
                                        "AttributeError"
                                 [] OTHER -> "AptnerAuthError"

\* a call that was answered 401 twice: first request, re-authentication, retry
C1_Witness ==
    \E t \in Threads :
        /\ pc[t] = "done"
        /\ Len(log[t]) = 3
        /\ log[t][1].k = "res" /\ log[t][1].status = 401
        /\ log[t][2].k = "auth" /\ log[t][2].ok
        /\ log[t][3].k = "res" /\ log[t][3].status = 401
        /\ log[t][3].tok # log[t][1].tok
        /\ out[t] = Raised("AptnerError")

\* C2: _request returns a value only when the last response it received has a
\* status below 400; when the last response has a status of 400 or more the
\* call raises (AptnerError for a resource response, its subclass
\* AptnerAuthError for an answer of the identity endpoint) and returns nothing.
C2_ReturnsOnlyBelow400 ==
    \A t \in Threads :
        LET l == log[t] IN
        (pc[t] = "done" /\ op[t].name \in {"reserve_car", "delete_reservation"}) =>
            /\ l # <<>>
            /\ out[t].kind \in {"return", "raise"}
            /\ out[t].kind = "return" =>
                  l[Len(l)].k = "res" /\ l[Len(l)].status < 400
            /\ l[Len(l)].status >= 400 =>
                  /\ out[t].kind = "raise"
                  /\ out[t].exc = IF l[Len(l)].k = "res" THEN "AptnerError"
                                  ELSE "AptnerAuthError"

\* a first response of exactly 400: no retry, the call raised
C2_Witness ==
    \E t \in Threads :
        /\ pc[t] = "done"
        /\ op[t].name = "delete_reservation"
        /\ Len(log[t]) = 1
        /\ log[t][1].k = "res" /\ log[t][1].status = 400
        /\ out[t] = Raised("AptnerError")

\* C3: a call of authenticate is one exchange with the identity endpoint; when
\* the status is 400 or more, or the body has no or an empty accessToken (a
\* JSON object without one, or a body that is no JSON object at all), the
\* caller gets AptnerAuthError and the stored token stays what it was; in
\* every other case the stored token becomes the returned one.
C3_AuthenticateStep ==
    [][\A t \in Threads :
          (InAuthenticate(t) /\ pc'[t] # pc[t]) =>
              /\ Len(log'[t]) = Len(log[t]) + 1
              /\ SubSeq(log'[t], 1, Len(log[t])) = log[t]
              /\ LET e == log'[t][Len(log'[t])] IN
                 /\ e.k = "auth"
                 /\ IF \/ e.status >= 400
                       \/ e.body # "object"
                       \/ e.tok = NoToken \/ e.tok = Tok("")
                    THEN /\ token' = token
                         /\ pc'[t] = "done"
                         /\ out'[t] = Raised("AptnerAuthError")
                    ELSE /\ token' = e.tok
                         /\ out'[t].kind # "raise"]_vars

----------------------------------------------------------------------------
(* Properties of the page loop of get_reservations *)

Min(a, b) == IF a < b THEN a ELSE b
Max(a, b) == IF a > b THEN a ELSE b
UpTo(n) == IF n >= 1 THEN [i \in 1..n |-> i] ELSE <<>>

FetchReturned(t) == pc[t] = "done" /\ IsFetch(t) /\ out[t].kind = "return"

\* C4 as stated: when page 1 reports totalPages = N and every page request
\* succeeds, the pages requested are 1, 2, ..., min(N, 50), each once, in
\* that order.
C4_MinPages ==
    \A t \in Threads :
        (FetchReturned(t) /\ fr[t].first.t = "int") =>
            fr[t].pages = UpTo(Min(fr[t].first.v, 50))

\* C4, amended: when page 1 reports totalPages = N and every page request
\* succeeds, the pages requested are 1, 2, ..., max(1, min(N, 50)), each
\* once, in that order (page 1 alone for N <= 0), whatever totalPages the
\* later pages carry.
C4_PagesInOrder ==
    \A t \in Threads :
        (FetchReturned(t) /\ fr[t].first.t = "int") =>
            fr[t].pages = UpTo(Max(1, Min(fr[t].first.v, 50)))

\* page 1 reported 51 pages, 50 were fetched, and a later page carried
\* another totalPages
C4_Witness ==
    \E t \in Threads :
        /\ FetchReturned(t)
        /\ fr[t].first = JInt(51)
        /\ Len(fr[t].pages) = 50
        /\ fr[t].differed

\* how far a fetch is from its end: the pages it may still request, then
\* the steps left in the request under way
FetchRank(at) ==
    CASE at = "req" -> 10 [] at = "auth_pre" -> 9 [] at = "send1" -> 8
      [] at = "wait1" -> 7 [] at = "auth_re" -> 6 [] at = "send2" -> 5
      [] at = "wait2" -> 4 [] at = "resume" -> 3
      [] at = "loop" -> 2 [] at = "sort" -> 1 [] OTHER -> 0

FetchMeasure(p, f) == 12 * (50 - Len(f.pages)) + FetchRank(p)

\* the caller is not waiting for anything but an answer the server gives
CanStep(t) ==
    \/ pc[t] \in {"done", "loop", "req", "resume", "sort", "send1", "send2"}
    \/ InAuthenticate(t) /\ env.auths # {}
    \/ pc[t] \in {"wait1", "wait2"} /\ Answers(t) # {}

\* C5: whatever the server answers (any totalPages on page 1, any page
\* contents, any status), one call of get_reservations ends, having requested
\* at least one page, and at no time has it requested more than 50: every
\* step of a fetch lowers a measure that is never negative and leaves the
\* fetch either ended or able to take its next step.
C5_BoundedFetch ==
    [][\A t \in Threads :
          (IsFetch(t) /\ pc[t] # "done" /\ <<pc[t], fr[t]>>' # <<pc[t], fr[t]>>) =>
              /\ Len(fr'[t].pages) <= 50
              /\ FetchMeasure(pc'[t], fr'[t]) < FetchMeasure(pc[t], fr[t])
              /\ FetchMeasure(pc'[t], fr'[t]) >= 0
              /\ pc'[t] = "done" => Len(fr'[t].pages) >= 1
              /\ CanStep(t)']_vars

\* a fetch ended with 50 pages requested after page 1 reported 100
C5_Witness ==
    \E t \in Threads :
        /\ pc[t] = "done" /\ IsFetch(t)
        /\ fr[t].first = JInt(100)
        /\ Len(fr[t].pages) = 50

----------------------------------------------------------------------------
(* Properties of the fetched list and of the index, under SpecFetch *)

\* (a.visitDate, a.carNo) <= (b.visitDate, b.carNo)
KeyLE(a, b) ==
    \/ a.visitDate < b.visitDate
    \/ a.visitDate = b.visitDate /\ (a.carNo = b.carNo \/ StrLess(a.carNo, b.carNo))

\* the kept records in the order the pages listed them
Arrival(t) == ProcessItems(fr[t].seen, fr[t].today, <<>>)

\* C6: the list a fetch returns is sorted by visit date, then by plate,
\* however the records were spread over the pages and ordered within them.
C6_Sorted ==
    \A t \in Threads :
        FetchReturned(t) =>
            \A i \in 1..(Len(out[t].list) - 1) :
                KeyLE(out[t].list[i], out[t].list[i + 1])

\* two records of one date came on two pages, plate "2" before plate "123",
\* and were returned the other way round
C6_Witness ==
    \E t \in Threads :
        /\ FetchReturned(t)
        /\ Len(fr[t].pages) = 2
        /\ Len(out[t].list) = 2
        /\ Arrival(t)[1].carNo = PlateB /\ Arrival(t)[2].carNo = PlateA
        /\ out[t].list[1].carNo = PlateA /\ out[t].list[2].carNo = PlateB
        /\ out[t].list[1].visitDate = out[t].list[2].visitDate

\* the listed records whose date text parses and is not before today
KeptIdx(t) ==
    {i \in 1..Len(fr[t].seen) :
        /\ Strptime(fr[t].seen[i].visitDate).ok
        /\ Strptime(fr[t].seen[i].visitDate).date >= fr[t].today}

\* C7: when every page request succeeded, the returned list has exactly one
\* entry for each listed record whose visitDate parses as YYYY.MM.DD and is
\* today or later, and no other entry; records of the past and records whose
\* date does not parse are left out, and nothing else is.
C7_ExactlyTheLive ==
    \A t \in Threads :
        FetchReturned(t) =>
            /\ Len(out[t].list) = Cardinality(KeptIdx(t))
            /\ \A i \in KeptIdx(t) :
                  \E j \in 1..Len(out[t].list) :
                      /\ out[t].list[j].idx = fr[t].seen[i].visitReserveIdx
                      /\ out[t].list[j].carNo = fr[t].seen[i].carNo
                      /\ out[t].list[j].visitDateStr = fr[t].seen[i].visitDate.s
                      /\ out[t].list[j].visitDate = Strptime(fr[t].seen[i].visitDate).date
                      /\ \A k \in 1..Len(out[t].list) :
                            out[t].list[k].idx = out[t].list[j].idx => k = j

\* one page listed a record without a date and then a record dated today:
\* the second one alone was returned
C7_Witness ==
    \E t \in Threads :
        /\ FetchReturned(t)
        /\ fr[t].pages = <<1>>
        /\ Len(fr[t].seen) = 2
        /\ ~fr[t].seen[1].visitDate.present
        /\ fr[t].seen[2].visitDate = Txt(Strftime(Day0))
        /\ fr[t].today = Ordinal(2024, 2, 29)
        /\ Len(out[t].list) = 1
        /\ out[t].list[1].idx = 2

IndexBuilt(t) == pc[t] = "done" /\ op[t].name = "get_reserved_dates" /\ out[t].kind = "return"

\* the filter lets r through; an empty plate is no filter
Passes(car_no, r) == ~car_no.present \/ car_no.s = <<>> \/ r.carNo = car_no.s

\* the day-span of a fetched reservation when it is an integer of 1 or more
HasSpan(r) == r.days.t = "int" /\ r.days.v >= 1

\* C8: for every fetched reservation with day-span N >= 1, plate V and start
\* date D that passes the filter, the index holds (V, D), ..., (V, D+N-1);
\* every pair of the index is such a pair of some reservation that passes the
\* filter (one of malformed day-span counting for its start date at most);
\* with a filter, the index holds pairs of that plate only.  No index is
\* built when the day-span of a reservation that passes the filter is a
\* string or reaches past 9999-12-31: the call raises.
C8_IndexOfSpans ==
    \A t \in Threads :
        IndexBuilt(t) =>
            LET L == out[t].list
                S == out[t].set
                f == op[t].arg.car_no
            IN  /\ \A i \in 1..Len(L) :
                      (HasSpan(L[i]) /\ Passes(f, L[i])) =>
                          \A k \in 0..(L[i].days.v - 1) :
                              <<L[i].carNo, L[i].visitDate + k>> \in S
                /\ \A p \in S :
                      \E i \in 1..Len(L) :
                          /\ Passes(f, L[i])
                          /\ p[1] = L[i].carNo
                          /\ p[2] >= L[i].visitDate
                          /\ p[2] < L[i].visitDate + (IF HasSpan(L[i]) THEN L[i].days.v ELSE 1)
                /\ (f.present /\ f.s # <<>>) => \A p \in S : p[1] = f.s

\* with the filter "123": a three-day reservation of that plate that ends on
\* 9999-12-31 was fetched with a reservation of the other plate that runs
\* past that date, and the index holds the three days only
C8_Witness ==
    \E t \in Threads :
        /\ IndexBuilt(t)
        /\ op[t].arg.car_no = Txt(PlateA)
        /\ Len(out[t].list) = 2
        /\ \E i, j \in 1..2 :
              /\ out[t].list[i].carNo = PlateA /\ out[t].list[i].days = JInt(3)
              /\ out[t].list[i].visitDate = Ordinal(9999, 12, 29)
              /\ out[t].list[j].carNo = PlateB
              /\ out[t].list[j].visitDate + out[t].list[j].days.v - 1 > Ordinal(9999, 12, 31)
              /\ out[t].set = {<<PlateA, Ordinal(9999, 12, 29) + k>> : k \in 0..2}

\* the day-span the server sent for a fetched reservation
RawDays(t, r) ==
    LET i == CHOOSE i \in 1..Len(fr[t].seen) : fr[t].seen[i].visitReserveIdx = r.idx
    IN  fr[t].seen[i].days

Malformed(x) == x.t \in {"absent", "null"} \/ (x.t = "int" /\ x.v <= 0)

\* C9: a reservation whose day-span is absent, null, zero or negative counts
\* as one of day-span 1: the index holds its pair (plate, visit date), and
\* holds nothing else when it is the only reservation fetched.
C9_MalformedSpanIsOne ==
    \A t \in Threads :
        IndexBuilt(t) =>
            \A i \in 1..Len(out[t].list) :
                LET r == out[t].list[i] IN
                (Malformed(RawDays(t, r)) /\ Passes(op[t].arg.car_no, r)) =>
                    /\ <<r.carNo, r.visitDate>> \in out[t].set
                    /\ Len(out[t].list) = 1 => out[t].set = {<<r.carNo, r.visitDate>>}

----------------------------------------------------------------------------
(* Properties of the schedule expansion, under SpecSchedule *)

Monday == 0
Wednesday == 2

\* C10: with no weekday selected the expansion is empty; otherwise it lists,
\* in ascending order and once each, exactly the dates from the anchor A to
\* A + 7 * weeks, both ends included, whose weekday is selected.  For Monday
\* and Wednesday, one week and A = 2024-01-01 it is 2024-01-01, 2024-01-03,
\* 2024-01-08.
C10_ScheduleDates ==
    dates.done =>
        LET L == dates.list
            A == dates.anchor
        IN  /\ dates.selected = {} => L = <<>>
            /\ dates.selected # {} =>
                  /\ \A i \in 1..(Len(L) - 1) : L[i] < L[i + 1]
                  /\ {L[i] : i \in 1..Len(L)} =
                        {d \in A..(A + 7 * dates.weeks) : Weekday(d) \in dates.selected}
            /\ (/\ dates.selected = {Monday, Wednesday}
                /\ dates.weeks = 1
                /\ A = Ordinal(2024, 1, 1)) =>
                  L = <<Ordinal(2024, 1, 1), Ordinal(2024, 1, 3), Ordinal(2024, 1, 8)>>

\* the expansion of Monday and Wednesday over one week from Monday 2024-01-01
\* ended with the Monday a week later
C10_Witness ==
    /\ dates.done
    /\ dates.selected = {Monday, Wednesday}
    /\ dates.weeks = 1
    /\ dates.anchor = Ordinal(2024, 1, 1)
    /\ Len(dates.list) = 3
    /\ dates.list[3] = dates.anchor + 7

----------------------------------------------------------------------------
(* Properties of the submission plan, under SpecPlan *)

\* the positions of the candidates that are free for the vehicle
FreeAt(c, v, r) == {i \in 1..Len(c) : <<v, c[i]>> \notin r}

\* the j-th smallest member of a set of positions
Nth(K, j) == CHOOSE i \in K : Cardinality({x \in K : x <= i}) = j

\* C11: the plan is the candidates that are not reserved for the vehicle, in
\* the order of the candidate list, whatever is reserved for other vehicles,
\* and planning again from the plan returns the plan.
C11_PlanIsFreeSubsequence ==
    plan.done =>
        LET K == FreeAt(plan.dates, plan.car_no, plan.reserved_dates) IN
        /\ Len(plan.new_dates) = Cardinality(K)
        /\ \A j \in 1..Len(plan.new_dates) : plan.new_dates[j] = plan.dates[Nth(K, j)]
        /\ NewDates(plan.new_dates, plan.car_no, plan.reserved_dates) = plan.new_dates

\* of three candidates out of ascending order the first is reserved for the
\* vehicle and the second for the other vehicle only: the last two are planned
C11_Witness ==
    /\ plan.done
    /\ plan.dates = <<Day0 + 1, Day0 + 2, Day0>>
    /\ plan.car_no = PlateA
    /\ plan.reserved_dates = {<<PlateA, Day0 + 1>>, <<PlateB, Day0 + 2>>}
    /\ plan.new_dates = <<Day0 + 2, Day0>>

----------------------------------------------------------------------------
(* Properties of reserve_car, under SpecReserve *)

\* C17: reserve_car rejects no day-span: whatever integer k it is called
\* with, the request it hands to _request, and every request then sent,
\* carries days = max(1, min(30, k)); and a call that ended has sent a
\* request, unless the authentication before the first request failed.
C17_ClampsDaySpan ==
    \A t \in Threads :
        op[t].name = "reserve_car" =>
            LET c == Max(1, Min(30, op[t].arg.days)) IN
            /\ pc[t] # "idle"
            /\ rq[t].method = "POST"
            /\ rq[t].json_data.days = c
            /\ \A i \in ResIdx(log[t]) : log[t][i].req.json_data.days = c
            /\ pc[t] = "done" =>
                  \/ ResIdx(log[t]) # {}
                  \/ (Len(log[t]) = 1 /\ log[t][1].k = "auth" /\ ~log[t][1].ok)

\* a booking asked with 45 days was sent with 30 and accepted
C17_Witness ==
    \E t \in Threads :
        /\ op[t].name = "reserve_car"
        /\ op[t].arg.days = 45
        /\ pc[t] = "done" /\ out[t].kind = "return"
        /\ \E i \in ResIdx(log[t]) :
              log[t][i].ok /\ log[t][i].req.json_data.days = MAX_DAYS_PER_RESERVATION

----------------------------------------------------------------------------
(* Properties of the bearer token and of concurrent callers, under SpecClient *)

\* C18: every request _request sends, first or retry, carries a bearer token
\* that is neither null nor empty; a call that found no token authenticated
\* before its first request, and sent no request when that failed.
C18_BearerPresent ==
    \A t \in Threads :
        /\ \A i \in ResIdx(log[t]) :
              /\ log[t][i].tok # NoToken
              /\ log[t][i].tok.t = "text" /\ log[t][i].tok.s # ""
              /\ \/ \E j \in 1..(i - 1) : (log[t][j].k = "auth" /\ log[t][j].ok)
                 \/ \A j \in 1..(i - 1) : log[t][j].k = "res"
        /\ (op[t].name # "authenticate" /\ log[t] # <<>> /\ log[t][1].k = "auth"
            /\ ~log[t][1].ok) => Len(log[t]) = 1 /\ out[t].kind = "raise"

\* a call that found no token sent its request with the token the
\* authentication before it had just stored
C18_Witness ==
    \E t \in Threads :
        /\ op[t].name = "reserve_car"
        /\ Len(log[t]) >= 2
        /\ log[t][1].k = "auth" /\ log[t][1].ok
        /\ log[t][2].k = "res" /\ log[t][2].tok = log[t][1].tok
        /\ log[t][2].tok \in {Tok("T1"), Tok("T2")}

\* C19: re-authentication is single-flight: at no time are two callers of the
\* shared client inside authenticate, and a retry carries the token that the
\* caller's own re-authentication stored.
C19_SingleFlight ==
    /\ Cardinality({t \in Threads : InAuthenticate(t)}) <= 1
    /\ \A t \in Threads :
          \A i \in ResIdx(log[t]) :
              (i > 1 /\ log[t][i - 1].k = "auth") => log[t][i].tok = log[t][i - 1].stored

----------------------------------------------------------------------------
(* What a fetch shows of the records it skipped, under SpecFetch *)

RECURSIVE Parseable(_)
\* the records of a listing without those whose date does not parse
Parseable(items) ==
    IF items = <<>> THEN <<>>
    ELSE (IF Strptime(Head(items).visitDate).ok THEN <<Head(items)>> ELSE <<>>)
         \o Parseable(Tail(items))

\* all that get_reservations hands to its caller: the returned list (it
\* writes no log and keeps no count)
Observed(items, tdy) == SortReservations(ProcessItems(items, tdy, <<>>))

\* C16: a fetch that skipped records with an unparseable date shows it: what
\* its caller gets differs from what the caller gets from the same listing
\* without those records.
C16_SkipsObservable ==
    \A t \in Threads :
        (FetchReturned(t) /\ Parseable(fr[t].seen) # fr[t].seen) =>
            out[t].list # Observed(Parseable(fr[t].seen), fr[t].today)

----------------------------------------------------------------------------
(* Properties of the register flow, under SpecRebook and SpecApp *)

\* C12: no creation request is sent for a (vehicle, date) pair that an
\* earlier creation request of the application booked and no deletion has
\* removed since, whatever the order of refreshes, registers and deletes.
C12_NeverRebooks ==
    [][\A t \in Threads :
          (/\ op[t].name = "reserve_car"
           /\ pc[t] \in {"send1", "send2"}
           /\ pc'[t] \in {"wait1", "wait2"})
          => <<op[t].arg.car_no.s, op[t].arg.visit_date>> \notin hist]_vars

Oks(tr) == Cardinality({i \in 1..Len(tr) : tr[i].ok})
DatesOf(tr) == [i \in 1..Len(tr) |-> tr[i].date]

\* C13: register_all tries the planned dates one by one in plan order, each
\* once, whether or not an earlier one failed; it ends with a result, never
\* with an error; succeeded counts the calls that returned, and succeeded +
\* failed is the number of planned dates.
C13_EveryDateTried ==
    /\ \A t \in Threads :
          job[t].func = "register_all" =>
              /\ job[t].k = Len(job[t].tried)
              /\ Len(job[t].tried) <= Len(job[t].new_dates)
              /\ DatesOf(job[t].tried) = SubSeq(job[t].new_dates, 1, Len(job[t].tried))
              /\ job[t].success = Oks(job[t].tried)
              /\ job[t].success + job[t].failed = Len(job[t].tried)
              /\ job[t].at = "emitted" => Len(job[t].tried) = Len(job[t].new_dates)
    /\ \A i \in 1..Len(signals) :
          signals[i].func = "register_all" =>
              /\ signals[i].kind = "finished"
              /\ DatesOf(signals[i].tried) = signals[i].new_dates
              /\ signals[i].success = Oks(signals[i].tried)
              /\ signals[i].success + signals[i].failed = Len(signals[i].new_dates)

\* of two planned dates the first failed at the server and the second was
\* booked: the run reported one success and one failure
C13_Witness ==
    \E i \in 1..Len(signals) :
        /\ signals[i].func = "register_all"
        /\ Len(signals[i].new_dates) = 2
        /\ signals[i].tried[1].sent /\ ~signals[i].tried[1].ok
        /\ signals[i].tried[2].ok
        /\ signals[i].success = 1 /\ signals[i].failed = 1

\* C14: every creation request of the register flow carries day-span 1, also
\* when the planned dates are consecutive days.
C14_OneDayEach ==
    \A t \in Threads :
        \A i \in ResIdx(log[t]) :
            log[t][i].req.method = "POST" => log[t][i].req.json_data.days = 1

\* Tuesday and Wednesday were planned, and the request for Wednesday was sent
C14_Witness ==
    \E t \in Threads :
        /\ job[t].func = "register_all"
        /\ job[t].new_dates = <<Ordinal(2024, 1, 2), Ordinal(2024, 1, 3)>>
        /\ job[t].k = 1
        /\ \E i \in ResIdx(log[t]) :
              /\ log[t][i].req.method = "POST"
              /\ log[t][i].req.json_data.visitDate = Strftime(Ordinal(2024, 1, 3))
              /\ log[t][i].req.json_data.days = 1

----------------------------------------------------------------------------
(* Properties of the refresh, under SpecRefresh and SpecApp *)

LastOf(l) == l[Len(l)]

\* the exception the failed exchange e leaves the caller of _request with
ExcOf(e) ==
    IF e.k = "auth"
    THEN AuthRaises([status |-> e.status, body |-> e.body, accessToken |-> e.tok])
    ELSE "AptnerError"

\* a fetch whose last exchange failed has raised that error and returned no
\* list, unless the exchange is the 401 that the re-authentication now
\* follows
FailedFetchRaised(t) ==
    (IsFetch(t) /\ log[t] # <<>> /\ ~LastOf(log[t]).ok) =>
        \/ pc[t] = "auth_re" /\ LastOf(log[t]).k = "res" /\ LastOf(log[t]).status = 401
        \/ /\ pc[t] = "done"
           /\ out[t].kind = "raise"
           /\ out[t].exc = ExcOf(LastOf(log[t]))
           /\ out[t].list = <<>>

\* the refresh worker whose fetch has raised emits an error and no result
FailedRefreshEmitsError ==
    \A t \in Threads :
        (/\ job[t].func = "fetch" /\ pc[t] = "done" /\ out[t].kind = "raise"
         /\ job'[t] # job[t])
        => /\ Len(signals') = Len(signals) + 1
           /\ LastOf(signals').kind = "error"
           /\ LastOf(signals').from = t
           /\ LastOf(signals').reservations = <<>>

\* the GUI thread handles the error of a refresh in this step
HandlesRefreshError ==
    /\ signals # <<>> /\ signals' = Tail(signals)
    /\ Head(signals).func = "fetch" /\ Head(signals).kind = "error"

\* C15 as stated: a fetch one of whose page requests failed raises that
\* error and returns no list; the refresh worker then emits an error, and
\* when it is handled the application's reservation list and index are
\* exactly as they were when that refresh was started.
C15_FailedRefreshRestores ==
    [][/\ \A t \in Threads : FailedFetchRaised(t)'
       /\ FailedRefreshEmitsError
       /\ HandlesRefreshError =>
             /\ app'.reservations = Head(signals).was.reservations
             /\ app'.reserved_dates = Head(signals).was.reserved_dates
      ]_vars

\* C15, amended: a fetch one of whose page requests failed raises that error
\* and returns no list, whatever the pages before it listed; the refresh
\* worker then emits an error and no result, and the handling of that error
\* leaves the application's reservation list and index exactly as they were
\* just before it.  They change only when the result of a refresh is
\* handled, so they are as they were when the failed refresh was started
\* unless another refresh has delivered its result since.
C15_FailedRefreshKeepsState ==
    [][/\ \A t \in Threads : FailedFetchRaised(t)'
       /\ FailedRefreshEmitsError
       /\ HandlesRefreshError => app' = app
       /\ app' # app
             => /\ signals # <<>> /\ signals' = Tail(signals)
                /\ Head(signals).kind = "finished"
                /\ Head(signals).func \in {"fetch", "login"}
      ]_vars

\* while the table shows a reservation that was not shown when the refresh
\* started, the second page request of that refresh has failed after its
\* first page listed a reservation
C15_Witness ==
    /\ app.reservations # <<>>
    /\ app.reserved_dates # {}
    /\ \E t \in Threads :
          /\ job[t].func = "fetch" /\ pc[t] = "done" /\ out[t].kind = "raise"
          /\ Len(fr[t].pages) = 2
          /\ fr[t].reservations # <<>>
          /\ job[t].was.reservations # app.reservations

Span(r) == IF r.days.t = "int" THEN r.days.v ELSE 1

\* the (vehicle, date) pairs the reservations of a list occupy
Projection(L) ==
    UNION {{<<L[i].carNo, L[i].visitDate + k>> : k \in 0..(Span(L[i]) - 1)} :
              i \in 1..Len(L)}

\* C20: the index the application holds is the projection of the reservation
\* list it holds, in every state.
C20_IndexIsProjection == app.reserved_dates = Projection(app.reservations)

----------------------------------------------------------------------------
(* The refresh after a register run or a delete, under SpecServer *)

\* the (vehicle, date) pairs the reservations the server holds occupy
Held ==
    UNION {{<<server.list[i].carNo, Strptime(server.list[i].visitDate).date + k>> :
               k \in 0..(DaysOf(server.list[i]).v - 1)} :
              i \in 1..Len(server.list)}

\* the GUI thread handles the oldest signal in this step
Delivers == signals # <<>> /\ signals' = Tail(signals)

\* the handler of the signal from slot t starts a refresh worker
StartsRefresh(t) == job'[t].func = "fetch" /\ job'[t].at = "start"

\* no refresh worker starts in this step
StartsNone ==
    \A t \in Threads : StartsRefresh(t) => job[t].func = "fetch" /\ job[t].at = "start"

\* the server has taken no change but those of the operation the refresh of
\* signal s was started for
OtherwiseUnchanged(s) == server.writes = s.cause.due

\* the worker in slot t emits the signal of its refresh in this step
RefreshEmits(t) ==
    job[t].func = "fetch" /\ job[t].at # "emitted" /\ job'[t].at = "emitted"

\* C21 as stated: the handler of every completed register run and of every
\* successful delete starts a refresh, the handler of a failed delete starts
\* none, and when that refresh is delivered by a responsive, otherwise
\* unchanged server the index holds every pair the run created and no pair of
\* the deleted reservation.
C21_RefreshAlwaysFollows ==
    [][Delivers =>
          LET s == Head(signals) IN
          /\ s.func = "register_all" /\ s.kind = "finished" => StartsRefresh(s.from)
          /\ s.func = "delete" /\ s.kind = "finished" => StartsRefresh(s.from)
          /\ s.func = "delete" /\ s.kind = "error" => StartsNone
          /\ s.func = "fetch" /\ s.kind = "finished" /\ OtherwiseUnchanged(s) =>
                 /\ s.cause.created \subseteq app'.reserved_dates
                 /\ s.cause.gone \cap app'.reserved_dates = {}]_vars

\* C21, amended: the handler of a completed register run starts a refresh
\* exactly when the login has set the client, the handler of a successful
\* delete always starts one and the handler of a failed delete none.  Every
\* refresh that is started ends: its result or its error is handled.  It
\* ends with an error exactly when its fetch raised, which is when a request
\* failed or a reservation listed has a day-span get_reserved_dates raises
\* on, and the error leaves the index as it is.  When its result is handled
\* with the server otherwise unchanged, the index holds every pair the run
\* created, and a pair of the deleted reservation only where a reservation
\* the server still holds occupies it.
C21_RefreshFollows ==
    /\ [][Delivers =>
             LET s == Head(signals) IN
             /\ s.func = "register_all" /\ s.kind = "finished" =>
                    IF app.client THEN StartsRefresh(s.from) ELSE StartsNone
             /\ s.func = "delete" /\ s.kind = "finished" => StartsRefresh(s.from)
             /\ s.func = "delete" /\ s.kind = "error" => StartsNone
             /\ s.func = "fetch" /\ s.kind = "error" => app' = app
             /\ s.func = "fetch" /\ s.kind = "finished" /\ OtherwiseUnchanged(s) =>
                    /\ s.cause.created \subseteq app'.reserved_dates
                    /\ (s.cause.gone \cap app'.reserved_dates) \subseteq Held]_vars
    /\ [][\A t \in Threads :
             RefreshEmits(t) =>
                 /\ pc[t] = "done"
                 /\ (LastOf(signals').kind = "error") = (out[t].kind = "raise")
                 /\ out[t].kind = "raise" =>
                        \/ /\ log[t] # <<>> /\ ~LastOf(log[t]).ok
                           /\ out[t].exc = ExcOf(LastOf(log[t]))
                        \/ /\ out[t].exc \in {"TypeError", "OverflowError"}
                           /\ job[t].at = "second"
                           /\ BuildRaises(fr[t].reservations, NoTxt) = out[t].exc]_vars
    /\ \A t \in Threads : (job[t].func = "fetch") ~> (job[t].func = "none")

\* a run has booked Tuesday and Wednesday on a server that held nothing, its
\* refresh has been delivered, and the index holds both
C21_Witness ==
    /\ clicks = 1 /\ signals = <<>> /\ \A t \in Threads : Free(t)
    /\ Len(server.list) = 2 /\ server.writes = 2
    /\ app.reserved_dates = Held
    /\ Cardinality(app.reserved_dates) = 2

----------------------------------------------------------------------------
(* Overlapping refreshes, under SpecApp *)

\* the delivery of this step ends the last worker in flight
LastWorkerEnds ==
    /\ Delivers
    /\ signals' = <<>>
    /\ \A t \in Threads : job'[t].func = "none"

\* C22: when the last worker to finish is a refresh started earlier than the
\* one whose results the application holds, the reservation list and the
\* reserved-date index stay those of the refresh started last.
C22_LastStartedWins ==
    [][LastWorkerEnds =>
          LET s == Head(signals) IN
          s.func = "fetch" /\ s.kind = "finished"
          /\ app.shown = app.newest /\ s.no < app.shown =>
              /\ app'.reservations = app.reservations
              /\ app'.reserved_dates = app.reserved_dates]_vars

====
